---- MODULE Spec2Model ----
(***************************************************************************)
(* media-manager: the reconciliation engine.                               *)
(*                                                                         *)
(* Part 1: canonical names (naming.py, metadata.py), the rename planner    *)
(* calculate_renames and the rename executor execute_renames working on a  *)
(* remote tree through SMBClient, journalling to UndoLog (Spec).           *)
(* Part 2: the undo journal file of UndoLog (SpecJournal).                 *)
(* Part 3: the polling watcher of watcher.py (SpecWatcher, SpecLoop).      *)
(* Part 4: the naming functions called on their own (SpecNaming).          *)
(* Part 5: the session of an SMBClient (SpecClient).                       *)
(* Part 6: the cover and lyrics writes of fix and of the watch callback    *)
(* (SpecFix).                                                              *)
(* Part 7: the watch command: the loop of run with process_albums as its   *)
(* callback, and stop called from another thread (SpecWatch).              *)
(*                                                                         *)
(* Python strings are sequences of one-character strings, so that replace, *)
(* split, strip and comparison are computed as the code computes them.     *)
(*                                                                         *)
(* Environment (the smbclient library, not part of the repository):        *)
(*   - stat(path) raises OSError exactly when the path is absent;          *)
(*   - rename(src, dst) is atomic: it either moves src (with everything    *)
(*     below it) to dst, or raises OSError and leaves the tree as it was;  *)
(*     it refuses an absent src, an existing dst, a dst whose parent is no *)
(*     directory and a dst below src, and it may fail on an I/O error;     *)
(*   - names are compared case-sensitively, "/" and "\" both separate.     *)
(***************************************************************************)
EXTENDS Integers, Sequences, FiniteSets, TLC

(***************************************************************************)
(* Bounds                                                                  *)
(***************************************************************************)
\* longest action list handed to execute_renames by a direct call
MaxActions == 2
\* longest track list handed to calculate_renames
MaxTracks == 2
\* most entries logged to the undo journal
MaxLogged == 2
\* most save calls on the undo journal
MaxSaves == 2
\* most UndoLog instances constructed on the journal path
MaxInstances == 2
\* most cycles of the watcher loop
MaxCycles == 2
\* longest name handed to sanitize_filename
MaxName == 3
\* most method calls on one SMBClient
MaxCalls == 3
\* most albums one fix command or one watch callback works through
MaxAlbums == 1

(***************************************************************************)
(* Strings                                                                 *)
(***************************************************************************)
BS == "\\"
FS == "/"

\* str.replace(c, d) for single characters
ReplaceChar(s, c, d) == [i \in 1..Len(s) |-> IF s[i] = c THEN d ELSE s[i]]

\* str.rstrip(chars)
RECURSIVE RStrip(_, _)
RStrip(s, cs) ==
  IF s # <<>> /\ s[Len(s)] \in cs THEN RStrip(SubSeq(s, 1, Len(s) - 1), cs) ELSE s

\* str.lstrip(chars)
RECURSIVE LStrip(_, _)
LStrip(s, cs) ==
  IF s # <<>> /\ s[1] \in cs THEN LStrip(Tail(s), cs) ELSE s

\* str.strip(chars)
Strip(s, cs) == LStrip(RStrip(s, cs), cs)

\* index of the first c in s at or after k, 0 when there is none (str.find, 1-based)
RECURSIVE FindFrom(_, _, _)
FindFrom(s, c, k) ==
  IF k > Len(s) THEN 0 ELSE IF s[k] = c THEN k ELSE FindFrom(s, c, k + 1)

FindChar(s, c) == FindFrom(s, c, 1)

\* index of the last c in s at or before k, 0 when there is none (str.rfind, 1-based)
RECURSIVE RFindFrom(_, _, _)
RFindFrom(s, c, k) ==
  IF k < 1 THEN 0 ELSE IF s[k] = c THEN k ELSE RFindFrom(s, c, k - 1)

RFindChar(s, c) == RFindFrom(s, c, Len(s))

\* str.split(c): the pieces between the separators, empty pieces kept
RECURSIVE SplitFrom(_, _, _)
SplitFrom(s, c, k) ==
  LET i == FindFrom(s, c, k)
  IN  IF i = 0 THEN <<SubSeq(s, k, Len(s))>>
      ELSE <<SubSeq(s, k, i - 1)>> \o SplitFrom(s, c, i + 1)

Split(s, c) == SplitFrom(s, c, 1)

\* c.join(parts)
RECURSIVE Join(_, _)
Join(parts, c) ==
  IF parts = <<>> THEN <<>>
  ELSE IF Len(parts) = 1 THEN parts[1]
  ELSE parts[1] \o <<c>> \o Join(Tail(parts), c)

\* the elements of s that lie in keep, in order (a filtering list comprehension)
RECURSIVE SelectIn(_, _)
SelectIn(s, keep) ==
  IF s = <<>> THEN <<>>
  ELSE (IF s[1] \in keep THEN <<s[1]>> ELSE <<>>) \o SelectIn(Tail(s), keep)

Range(s) == {s[i] : i \in 1..Len(s)}

\* all sequences over S of length at most n
SeqsUpTo(S, n) == UNION {[1..k -> S] : k \in 0..n}

(***************************************************************************)
(* The remote tree behind SMBClient                                        *)
(*                                                                         *)
(* A tree maps the component path of every existing entry to 0 for a       *)
(* directory and to the identity (content) of the file otherwise.          *)
(***************************************************************************)
Dir == 0

NonEmpty(x) == x # <<>>

\* the components of a path string
Resolve(path) == SelectSeq(Split(ReplaceChar(path, FS, BS), BS), NonEmpty)

IsPrefix(p, q) == Len(p) <= Len(q) /\ SubSeq(q, 1, Len(p)) = p

Parent(p) == SubSeq(p, 1, Len(p) - 1)

Files(t) == {p \in DOMAIN t : t[p] # Dir}

\* SMBClient.exists: stat succeeded
exists(t, path) == Resolve(path) \in DOMAIN t

\* the conditions under which the server refuses rename(src, dst)
RenameRefused(t, sp, dp) ==
  \/ sp \notin DOMAIN t
  \/ dp \in DOMAIN t
  \/ dp = <<>>
  \/ Parent(dp) \notin DOMAIN t
  \/ t[Parent(dp)] # Dir
  \/ IsPrefix(sp, dp)

\* the tree after moving sp, and everything below it, to dp
Moved(t, sp, dp) ==
  LET from == {q \in DOMAIN t : IsPrefix(sp, q)}
      stay == DOMAIN t \ from
      NewPath(q) == dp \o SubSeq(q, Len(sp) + 1, Len(q))
  IN  [q \in stay \cup {NewPath(o) : o \in from} |->
         IF q \in stay THEN t[q] ELSE t[CHOOSE o \in from : NewPath(o) = q]]

\* SMBClient.rename: [ok |-> the call returned, tree |-> the tree afterwards];
\* ok = FALSE stands for the OSError the call raises
rename(t, src, dst, fault) ==
  LET sp == Resolve(src)
      dp == Resolve(dst)
  IN  IF fault \/ RenameRefused(t, sp, dp)
      THEN [ok |-> FALSE, tree |-> t]
      ELSE [ok |-> TRUE, tree |-> Moved(t, sp, dp)]

(***************************************************************************)
(* RenameAction and execute_renames                                        *)
(***************************************************************************)
FolderKinds == {"album_folder", "artist_folder"}
FileKinds == {"file"}

RenameAction(src, dst, action_type) ==
  [src |-> src, dst |-> dst, action_type |-> action_type]

\* UndoLog.log_rename: the entry appended to the buffer
RenameEntry(src, dst) == [operation |-> "rename", src |-> src, dst |-> dst]

log_rename(entries, src, dst) == Append(entries, RenameEntry(src, dst))

RECURSIVE SelectKind(_, _)
SelectKind(acts, kinds) ==
  IF acts = <<>> THEN <<>>
  ELSE (IF acts[1].action_type \in kinds THEN <<acts[1]>> ELSE <<>>)
       \o SelectKind(Tail(acts), kinds)

\* a plausible slip: the list is filtered but not partitioned
ExecutionOrder_unsorted(acts) == SelectKind(acts, FolderKinds \cup FileKinds)

\* folder_actions + file_actions
ExecutionOrder(acts) == SelectKind(acts, FolderKinds) \o SelectKind(acts, FileKinds)

\* a plausible slip: dry_run ignored
LiveMode_always(dry) == TRUE

\* `if not dry_run`
LiveMode(dry) == ~dry

\* `if not client.exists(action.src)`
SourceMissing(t, a) == ~exists(t, a.src)

\* a plausible slip: the destination guard left out
DestinationExists_unchecked(t, a) == FALSE

\* `if client.exists(action.dst)`
DestinationExists(t, a) == exists(t, a.dst)

\* a plausible slip: the rename is journalled before it is known to have succeeded
Journal_early(entries, a, called, ok) ==
  IF called THEN log_rename(entries, a.src, a.dst) ELSE entries

\* undo_log.log_rename runs only when client.rename returned
Journal(entries, a, called, ok) ==
  IF called /\ ok THEN log_rename(entries, a.src, a.dst) ELSE entries

\* a plausible slip: the first failure leaves the loop (break instead of continue)
NextIndex_abort(k, n, ok) == IF ok THEN k + 1 ELSE n + 1

\* `continue` and the except clause both go on with the next action
NextIndex(k, n, ok) == k + 1

\* a plausible slip: a `continue` missing, a failure is counted as a success too
Counted_twice(success, errors, ok) ==
  IF ok THEN <<success + 1, errors>> ELSE <<success + 1, errors + 1>>

\* a plausible slip: `errors += 1` missing, a failure is not counted
Counted_lenient(success, errors, ok) ==
  IF ok THEN <<success + 1, errors>> ELSE <<success, errors>>

\* `success += 1` at the end of the body, `errors += 1` on every failure
Counted(success, errors, ok) ==
  IF ok THEN <<success + 1, errors>> ELSE <<success, errors + 1>>

\* a plausible slip: no destination guard, and a rename that replaces whatever
\* is at the destination (smbclient.replace instead of smbclient.rename)
Attempt_overwrite(t, a, dry, fault) ==
  IF ~dry
  THEN IF ~exists(t, a.src) THEN [ok |-> FALSE, called |-> FALSE, tree |-> t]
       ELSE LET dp == Resolve(a.dst)
                kept == {q \in DOMAIN t : ~IsPrefix(dp, q)}
                cleared == [q \in kept |-> t[q]]
                r == IF fault \/ RenameRefused(cleared, Resolve(a.src), dp)
                     THEN [ok |-> FALSE, tree |-> t]
                     ELSE [ok |-> TRUE, tree |-> Moved(cleared, Resolve(a.src), dp)]
            IN  [ok |-> r.ok, called |-> TRUE, tree |-> r.tree]
  ELSE [ok |-> TRUE, called |-> FALSE, tree |-> t]

\* a plausible slip: only the rename itself is skipped in dry-run, the two checks
\* are made in both modes
Attempt_checked(t, a, dry, fault) ==
  IF ~exists(t, a.src) \/ exists(t, a.dst)
  THEN [ok |-> FALSE, called |-> FALSE, tree |-> t]
  ELSE IF dry THEN [ok |-> TRUE, called |-> FALSE, tree |-> t]
  ELSE LET r == rename(t, a.src, a.dst, fault)
       IN  [ok |-> r.ok, called |-> TRUE, tree |-> r.tree]

\* one iteration of the loop body on action a:
\* ok = counted as success, called = client.rename was issued
Attempt(t, a, dry, fault) ==
  IF LiveMode(dry)
  THEN IF SourceMissing(t, a) THEN [ok |-> FALSE, called |-> FALSE, tree |-> t]
       ELSE IF DestinationExists(t, a) THEN [ok |-> FALSE, called |-> FALSE, tree |-> t]
       ELSE LET r == rename(t, a.src, a.dst, fault)
            IN  [ok |-> r.ok, called |-> TRUE, tree |-> r.tree]
  ELSE [ok |-> TRUE, called |-> FALSE, tree |-> t]

(***************************************************************************)
(* TrackMetadata (metadata.py)                                             *)
(***************************************************************************)
\* the upper-case letters and their lower-case forms
LowerMap ==
  "A" :> "a" @@ "B" :> "b" @@ "C" :> "c" @@ "D" :> "d" @@ "E" :> "e" @@ "F" :> "f"
  @@ "G" :> "g" @@ "H" :> "h" @@ "I" :> "i" @@ "J" :> "j" @@ "K" :> "k" @@ "L" :> "l"
  @@ "M" :> "m" @@ "N" :> "n" @@ "O" :> "o" @@ "P" :> "p" @@ "Q" :> "q" @@ "R" :> "r"
  @@ "S" :> "s" @@ "T" :> "t" @@ "U" :> "u" @@ "V" :> "v" @@ "W" :> "w" @@ "X" :> "x"
  @@ "Y" :> "y" @@ "Z" :> "z"

\* str.lower()
Lower(s) == [k \in 1..Len(s) |-> IF s[k] \in DOMAIN LowerMap THEN LowerMap[s[k]] ELSE s[k]]

Digits == <<"0", "1", "2", "3", "4", "5", "6", "7", "8", "9">>

\* str(n) for n >= 0
RECURSIVE Str(_)
Str(n) == IF n < 10 THEN <<Digits[n + 1]>> ELSE Str(n \div 10) \o <<Digits[(n % 10) + 1]>>

\* a plausible slip: no padding
Pad2_plain(n) == Str(n)

\* f"{n:02d}" for n >= 0
Pad2(n) == IF n < 10 THEN <<"0">> \o Str(n) ELSE Str(n)

S_FLAC == <<"F", "L", "A", "C">>
S_MP3 == <<"M", "P", "3">>
S_AAC == <<"A", "A", "C">>
S_M4A == <<"M", "4", "A">>
S_OGG == <<"O", "G", "G">>
S_Opus == <<"O", "p", "u", "s">>
S_Unknown == <<"U", "n", "k", "n", "o", "w", "n">>
S_UnknownArtist == <<"U", "n", "k", "n", "o", "w", "n", " ", "A", "r", "t", "i", "s", "t">>
S_UnknownAlbum == <<"U", "n", "k", "n", "o", "w", "n", " ", "A", "l", "b", "u", "m">>
S_UnknownTrack == <<"U", "n", "k", "n", "o", "w", "n", " ", "T", "r", "a", "c", "k">>
S_DotFlac == <<".", "f", "l", "a", "c">>

\* the aliases of is_compilation
VariousArtists ==
  {<<"v", "a", "r", "i", "o", "u", "s", " ", "a", "r", "t", "i", "s", "t", "s">>,
   <<"v", "a", "r", "i", "o", "u", "s">>, <<"v", "a">>,
   <<"c", "o", "m", "p", "i", "l", "a", "t", "i", "o", "n">>,
   <<"s", "o", "u", "n", "d", "t", "r", "a", "c", "k">>, <<"o", "s", "t">>}

\* settings.compilations_folder
compilations_folder == <<"C", "o", "m", "p", "i", "l", "a", "t", "i", "o", "n", "s">>

\* a plausible slip: the alias compared as it is written
is_compilation_cased(meta) == meta.album_artist \in VariousArtists

\* TrackMetadata.is_compilation
is_compilation(meta) == Lower(meta.album_artist) \in VariousArtists

\* a plausible slip: the sample rate in Hz
format_tag_hertz(meta) ==
  IF meta.format = S_FLAC
  THEN IF meta.bit_depth # 0 /\ meta.sample_rate # 0
       THEN S_FLAC \o <<" ">> \o Str(meta.bit_depth) \o <<"-">> \o Str(meta.sample_rate)
       ELSE S_FLAC
  ELSE IF meta.format = S_MP3
  THEN IF meta.bitrate # 0 THEN S_MP3 \o <<" ">> \o Str(meta.bitrate) ELSE S_MP3
  ELSE IF meta.format \in {S_AAC, S_M4A}
  THEN IF meta.bitrate # 0 THEN S_AAC \o <<" ">> \o Str(meta.bitrate) ELSE S_AAC
  ELSE IF meta.format \in {S_OGG, S_Opus}
  THEN IF meta.bitrate # 0 THEN meta.format \o <<" ">> \o Str(meta.bitrate) ELSE meta.format
  ELSE IF meta.format # <<>> THEN meta.format ELSE S_Unknown

\* TrackMetadata.format_tag
format_tag(meta) ==
  IF meta.format = S_FLAC
  THEN IF meta.bit_depth # 0 /\ meta.sample_rate # 0
       THEN S_FLAC \o <<" ">> \o Str(meta.bit_depth) \o <<"-">> \o Str(meta.sample_rate \div 1000)
       ELSE S_FLAC
  ELSE IF meta.format = S_MP3
  THEN IF meta.bitrate # 0 THEN S_MP3 \o <<" ">> \o Str(meta.bitrate) ELSE S_MP3
  ELSE IF meta.format \in {S_AAC, S_M4A}
  THEN IF meta.bitrate # 0 THEN S_AAC \o <<" ">> \o Str(meta.bitrate) ELSE S_AAC
  ELSE IF meta.format \in {S_OGG, S_Opus}
  THEN IF meta.bitrate # 0 THEN meta.format \o <<" ">> \o Str(meta.bitrate) ELSE meta.format
  ELSE IF meta.format # <<>> THEN meta.format ELSE S_Unknown

(***************************************************************************)
(* Canonical names (naming.py)                                             *)
(***************************************************************************)
\* INVALID_CHARS: < > : " / \ | ? * and the control characters \x00-\x1f
ControlChars == {"\t", "\n", "\r", "\f"}
InvalidChars == {"<", ">", ":", "\"", "/", "\\", "|", "?", "*"} \cup ControlChars

\* what \s matches once the control characters are gone: the space and the
\* Unicode spaces above \x1f (NBSP stands for U+00A0)
WhiteSpace == {" ", "NBSP"} \cup ControlChars

\* re.sub of single characters of a class by a string
RECURSIVE SubChars(_, _, _)
SubChars(s, class, by) ==
  IF s = <<>> THEN <<>>
  ELSE (IF s[1] \in class THEN by ELSE <<s[1]>>) \o SubChars(Tail(s), class, by)

\* re.sub(r"[class]+", c): every maximal run of class characters becomes one c
RECURSIVE CollapseRuns(_, _, _)
CollapseRuns(s, class, c) ==
  IF s = <<>> THEN <<>>
  ELSE IF s[1] \in class
  THEN <<c>> \o CollapseRuns(LStrip(s, class), class, c)
  ELSE <<s[1]>> \o CollapseRuns(Tail(s), class, c)

\* sanitize_filename(name, replacement)
sanitize(name, replacement) ==
  LET replaced == SubChars(name, InvalidChars, replacement)
      stripped == Strip(replaced, {" ", "."})
      spaced == CollapseRuns(stripped, WhiteSpace, " ")
  IN  CollapseRuns(spaced, {"_"}, "_")

\* sanitize_filename(name) with the default replacement
sanitize_filename(name) == sanitize(name, <<"_">>)

\* `a or b` on strings
OrElse(a, b) == IF a # <<>> THEN a ELSE b

\* generate_folder_name
generate_folder_name(meta) ==
  LET artist_folder ==
        IF is_compilation(meta) THEN compilations_folder
        ELSE sanitize_filename(OrElse(meta.album_artist, OrElse(meta.artist, S_UnknownArtist)))
      album == sanitize_filename(OrElse(meta.album, S_UnknownAlbum))
      album_with_year ==
        IF meta.year # 0 THEN album \o <<" ", "(">> \o Str(meta.year) \o <<")">> ELSE album
      tag == format_tag(meta)
      album_folder ==
        IF tag # <<>> THEN album_with_year \o <<" ", "[">> \o tag \o <<"]">>
        ELSE album_with_year
  IN  artist_folder \o <<FS>> \o album_folder

\* PurePath(path).name: the last component ("/" separates; "" and "." are dropped)
PurePathName(path) ==
  LET parts == SelectSeq(Split(path, FS), LAMBDA x : x # <<>> /\ x # <<".">>)
  IN  IF parts = <<>> THEN <<>> ELSE parts[Len(parts)]

\* PurePath(path).suffix: from the last dot of the name, unless the name starts or
\* ends with it
Suffix(path) ==
  LET name == PurePathName(path)
      k == RFindChar(name, ".")
  IN  IF k > 1 /\ k < Len(name) THEN SubSeq(name, k, Len(name)) ELSE <<>>

\* generate_track_filename
generate_track_filename(meta) ==
  LET ext == IF meta.file_path # <<>> THEN Lower(Suffix(meta.file_path)) ELSE S_DotFlac
      title == sanitize_filename(OrElse(meta.title, S_UnknownTrack))
      track_num == IF meta.track_number # 0 THEN meta.track_number ELSE 1
  IN  IF meta.total_discs > 1 \/ meta.disc_number > 1
      THEN LET disc == IF meta.disc_number # 0 THEN meta.disc_number ELSE 1
           IN  Str(disc) \o <<"-">> \o Pad2(track_num) \o <<" ", "-", " ">> \o title \o ext
      ELSE Pad2(track_num) \o <<" ", "-", " ">> \o title \o ext

(***************************************************************************)
(* calculate_renames                                                       *)
(*                                                                         *)
(* tracks is a sequence of FileInfo [path, name]; track_metadata is        *)
(* [given |-> FALSE] for None and [given |-> TRUE, map |-> path -> meta]   *)
(* for a dict.                                                             *)
(***************************************************************************)
FileInfo(path, name) == [path |-> path, name |-> name]

\* album_path.replace("\\", "/").rstrip("/").split("/")
PathParts(album_path) == Split(RStrip(ReplaceChar(album_path, BS, FS), {FS}), FS)

\* a plausible slip: the whole "artist/album" name taken for the album folder
IdealAlbum_whole(ideal_folder) == ideal_folder

\* ideal_parts[1] if len(ideal_parts) > 1 else ideal_parts[0]
IdealAlbum(ideal_folder) ==
  LET ideal_parts == Split(ideal_folder, FS)
  IN  IF Len(ideal_parts) > 1 THEN ideal_parts[2] ELSE ideal_parts[1]

\* a plausible slip: the album action never emitted
AlbumRenamed_never(current_album_folder, ideal_album) == FALSE

\* a plausible slip: the album action emitted without the comparison
AlbumRenamed_always(current_album_folder, ideal_album) == TRUE

\* `if current_album_folder != ideal_album`
AlbumRenamed(current_album_folder, ideal_album) == current_album_folder # ideal_album

\* `if track_metadata`: neither None nor empty
HasTrackMetadata(track_metadata) ==
  track_metadata.given /\ DOMAIN track_metadata.map # {}

\* the loop over the tracks
RECURSIVE FileActions(_, _, _, _)
FileActions(tracks, track_metadata, album_renamed, new_album_path) ==
  IF tracks = <<>> THEN <<>>
  ELSE
    LET track_info == tracks[1]
        rest == FileActions(Tail(tracks), track_metadata, album_renamed, new_album_path)
    IN  IF track_info.path \notin DOMAIN track_metadata.map THEN rest
        ELSE
          LET ideal_filename == generate_track_filename(track_metadata.map[track_info.path])
              current_name == track_info.name
              src == IF album_renamed THEN new_album_path \o <<BS>> \o current_name
                     ELSE track_info.path
              dst == new_album_path \o <<BS>> \o ideal_filename
          IN  IF current_name = ideal_filename THEN rest
              ELSE IF src = dst THEN rest
              ELSE <<RenameAction(src, dst, "file")>> \o rest

calculate_renames(album_path, tracks, album_meta, track_metadata) ==
  LET path_parts == PathParts(album_path)
  IN  IF Len(path_parts) < 2 THEN <<>>
      ELSE
        LET current_album_folder == path_parts[Len(path_parts)]
            parent_path ==
              ReplaceChar(Join(SubSeq(path_parts, 1, Len(path_parts) - 1), FS), FS, BS)
            ideal_album == IdealAlbum(generate_folder_name(album_meta))
            album_renamed == AlbumRenamed(current_album_folder, ideal_album)
            new_album_path ==
              IF album_renamed THEN parent_path \o <<BS>> \o ideal_album ELSE album_path
            folder ==
              IF album_renamed
              THEN <<RenameAction(album_path, new_album_path, "album_folder")>>
              ELSE <<>>
        IN  IF HasTrackMetadata(track_metadata)
            THEN folder \o FileActions(tracks, track_metadata, album_renamed, new_album_path)
            ELSE folder

(***************************************************************************)
(* The share, the albums and the calls the model explores                  *)
(***************************************************************************)
\* \\s\m is the share; R is an artist directory, "W" an album directory with a
\* non-canonical name and "W [FLAC]" the canonical name of album "W" in FLAC
P_Root == <<"\\", "\\", "s", "\\", "m">>
P_R == P_Root \o <<"\\", "R">>
P_Q == P_Root \o <<"\\", "Q">>
P_W == P_R \o <<"\\", "W">>
P_V == P_R \o <<"\\", "W", " ", "[", "F", "L", "A", "C", "]">>
P_VSlashes == <<"/", "/", "s", "/", "m", "/", "R", "/", "W", " ", "[", "F", "L", "A", "C", "]", "/">>
N_x == <<"x", ".", "f", "l", "a", "c">>
N_T == <<"0", "1", " ", "-", " ", "T", ".", "f", "l", "a", "c">>
P_Wx == P_W \o <<BS>> \o N_x
P_WT == P_W \o <<BS>> \o N_T
P_Vx == P_V \o <<BS>> \o N_x
P_VT == P_V \o <<BS>> \o N_T

C_Root == Resolve(P_Root)
C_R == Resolve(P_R)

BaseTree == (C_Root :> Dir) @@ (C_R :> Dir)

Trees ==
  { BaseTree @@ (Resolve(P_W) :> Dir) @@ (Resolve(P_Wx) :> 1),
    BaseTree @@ (Resolve(P_W) :> Dir) @@ (Resolve(P_Wx) :> 1) @@ (Resolve(P_WT) :> 2),
    BaseTree @@ (Resolve(P_W) :> Dir) @@ (Resolve(P_Wx) :> 1)
             @@ (Resolve(P_V) :> Dir) @@ (Resolve(P_Vx) :> 2),
    BaseTree @@ (Resolve(P_V) :> Dir) @@ (Resolve(P_VT) :> 1) @@ (Resolve(P_Vx) :> 2) }

\* the actions a direct call of execute_renames may be handed
ActionPool ==
  { RenameAction(P_W, P_V, "album_folder"),
    RenameAction(P_R, P_Q, "artist_folder"),
    RenameAction(P_Wx, P_WT, "file"),
    RenameAction(P_Vx, P_VT, "file"),
    RenameAction(P_Wx, P_Vx, "file"),
    RenameAction(P_WT, P_Wx, "file"),
    RenameAction(P_Wx, P_WT, "cover") }

NoMeta ==
  [title |-> <<>>, artist |-> <<>>, album_artist |-> <<>>, album |-> <<>>,
   track_number |-> 0, total_tracks |-> 0, disc_number |-> 1, total_discs |-> 1,
   year |-> 0, format |-> <<>>, bitrate |-> 0, sample_rate |-> 0, bit_depth |-> 0,
   file_path |-> <<>>]

\* album-level metadata
AlbumMetas ==
  { [NoMeta EXCEPT !.album_artist = <<"R">>, !.album = <<"W">>, !.format = S_FLAC],
    [NoMeta EXCEPT !.album_artist = <<"R">>, !.album = <<"W">>, !.format = S_FLAC,
                   !.year = 1979, !.bit_depth = 16, !.sample_rate = 44100],
    [NoMeta EXCEPT !.album_artist = <<"V", "A">>] }

\* per-track metadata: "01 - T.flac" and "2-02 - U.flac"
Meta_T == [NoMeta EXCEPT !.title = <<"T">>, !.track_number = 1, !.file_path = P_Wx]
Meta_U == [NoMeta EXCEPT !.title = <<"U">>, !.track_number = 2, !.disc_number = 2,
                         !.total_discs = 2, !.file_path = P_W \o <<"\\", "y", ".", "F", "L", "A", "C">>]

AlbumPaths == {P_W, P_V, P_VSlashes, <<"W">>}

\* the last one names a file by a path that is not its directory entry
FileInfos ==
  { FileInfo(P_Wx, N_x), FileInfo(P_WT, N_T), FileInfo(P_VT, N_T), FileInfo(P_Vx, N_x),
    FileInfo(P_VT, N_x) }

TrackPaths == {P_Wx, P_WT, P_VT, P_Vx}

TrackMetadatas ==
  { [given |-> FALSE, map |-> <<>>],
    [given |-> TRUE, map |-> <<>>],
    [given |-> TRUE, map |-> [q \in TrackPaths |-> Meta_T]],
    [given |-> TRUE, map |-> [q \in TrackPaths |-> IF q \in {P_Wx, P_Vx} THEN Meta_U ELSE Meta_T]],
    [given |-> TRUE, map |-> [q \in {P_Wx} |-> Meta_T]] }

NoAlbum ==
  [album_path |-> <<>>, tracks |-> <<>>, album_meta |-> NoMeta,
   track_metadata |-> [given |-> FALSE, map |-> <<>>]]

(***************************************************************************)
(* The undo journal (smb_client.py, UndoLog)                               *)
(*                                                                         *)
(* An entry is the dict the log_* methods build. The journal file is text: *)
(* save writes json.dumps(entry) and a newline per entry, read_all parses  *)
(* each non-blank line with json.loads. The file can be opened and written *)
(* (no I/O error in save).                                                 *)
(***************************************************************************)
QT == "\""
NL == "\n"

\* the keys and the operation names as they are written to the file
KeyText ==
  [timestamp |-> <<"t", "i", "m", "e", "s", "t", "a", "m", "p">>, operation |-> <<"o", "p", "e", "r", "a", "t", "i", "o", "n">>, src |-> <<"s", "r", "c">>,
   dst |-> <<"d", "s", "t">>, path |-> <<"p", "a", "t", "h">>, had_previous |-> <<"h", "a", "d", "_", "p", "r", "e", "v", "i", "o", "u", "s">>,
   previous_size |-> <<"p", "r", "e", "v", "i", "o", "u", "s", "_", "s", "i", "z", "e">>]

OperationText == [rename |-> <<"r", "e", "n", "a", "m", "e">>, write |-> <<"w", "r", "i", "t", "e">>, delete |-> <<"d", "e", "l", "e", "t", "e">>]

\* the dict of log_rename, with the timestamp datetime.now().isoformat() gave
StampedRename(timestamp, src, dst) ==
  [timestamp |-> timestamp, operation |-> "rename", src |-> src, dst |-> dst]

\* the dict of log_write
WriteEntry(timestamp, path, had_previous, previous_size) ==
  [timestamp |-> timestamp, operation |-> "write", path |-> path,
   had_previous |-> had_previous, previous_size |-> previous_size]

\* the dict of log_delete
DeleteEntry(timestamp, path) ==
  [timestamp |-> timestamp, operation |-> "delete", path |-> path]

\* the keys of an entry in insertion order
EntryKeys(entry) ==
  CASE entry.operation = "rename" -> <<"timestamp", "operation", "src", "dst">>
    [] entry.operation = "write" ->
         <<"timestamp", "operation", "path", "had_previous", "previous_size">>
    [] OTHER -> <<"timestamp", "operation", "path">>

\* json.dumps of the characters of a str
RECURSIVE EscapeJson(_)
EscapeJson(s) ==
  IF s = <<>> THEN <<>>
  ELSE (CASE s[1] = QT -> <<BS, QT>>
          [] s[1] = BS -> <<BS, BS>>
          [] s[1] = NL -> <<BS, "n">>
          [] OTHER -> <<s[1]>>) \o EscapeJson(Tail(s))

DumpsStr(s) == <<QT>> \o EscapeJson(s) \o <<QT>>

\* json.dumps of the value under key k
DumpsValue(k, v) ==
  CASE k = "operation" -> DumpsStr(OperationText[v])
    [] k = "had_previous" -> IF v THEN <<"t", "r", "u", "e">> ELSE <<"f", "a", "l", "s", "e">>
    [] k = "previous_size" -> Str(v)
    [] OTHER -> DumpsStr(v)

RECURSIVE DumpsItems(_, _)
DumpsItems(entry, keys) ==
  IF keys = <<>> THEN <<>>
  ELSE DumpsStr(KeyText[keys[1]]) \o <<":", " ">> \o DumpsValue(keys[1], entry[keys[1]])
       \o (IF Len(keys) > 1 THEN <<",", " ">> ELSE <<>>) \o DumpsItems(entry, Tail(keys))

\* json.dumps(entry)
dumps(entry) == <<"{">> \o DumpsItems(entry, EntryKeys(entry)) \o <<"}">>

\* the whitespace json.loads skips and str.strip() strips
JsonSpace == {" ", NL, "\t", "\r"}

RECURSIVE SkipSpace(_, _)
SkipSpace(s, k) ==
  IF k <= Len(s) /\ s[k] \in JsonSpace THEN SkipSpace(s, k + 1) ELSE k

\* the outcome of a parsing step: JSONDecodeError, or a value and where it ended
Bad == [ok |-> FALSE, value |-> <<>>, next |-> 0]
Good(v, k) == [ok |-> TRUE, value |-> v, next |-> k]

\* the body of a JSON string from position k to its closing quote. (A \u escape
\* stands for a character outside ASCII; none of the strings here has one.)
RECURSIVE ScanString(_, _, _)
ScanString(s, k, acc) ==
  IF k > Len(s) THEN Bad
  ELSE IF s[k] = QT THEN Good(acc, k + 1)
  ELSE IF s[k] \in {NL, "\t", "\r"} THEN Bad
  ELSE IF s[k] # BS THEN ScanString(s, k + 1, Append(acc, s[k]))
  ELSE IF k + 1 > Len(s) THEN Bad
  ELSE CASE s[k + 1] = QT -> ScanString(s, k + 2, Append(acc, QT))
         [] s[k + 1] = BS -> ScanString(s, k + 2, Append(acc, BS))
         [] s[k + 1] = "/" -> ScanString(s, k + 2, Append(acc, "/"))
         [] s[k + 1] = "n" -> ScanString(s, k + 2, Append(acc, NL))
         [] s[k + 1] = "t" -> ScanString(s, k + 2, Append(acc, "\t"))
         [] s[k + 1] = "r" -> ScanString(s, k + 2, Append(acc, "\r"))
         [] OTHER -> Bad

DigitValue(c) == CHOOSE d \in 0..9 : Digits[d + 1] = c

\* a JSON number without sign, fraction or exponent
RECURSIVE ScanInt(_, _, _)
ScanInt(s, k, acc) ==
  IF k <= Len(s) /\ s[k] \in Range(Digits)
  THEN ScanInt(s, k + 1, acc * 10 + DigitValue(s[k]))
  ELSE Good(acc, k)

StartsWith(s, k, lit) ==
  /\ k + Len(lit) - 1 <= Len(s)
  /\ SubSeq(s, k, k + Len(lit) - 1) = lit

\* a value of the kinds dumps writes for an entry: a string, a number, true, false
ParseValue(s, k) ==
  IF k > Len(s) THEN Bad
  ELSE CASE s[k] = QT -> ScanString(s, k + 1, <<>>)
         [] s[k] = "0" -> Good(0, k + 1)
         [] s[k] \in Range(Digits) -> ScanInt(s, k, 0)
         [] StartsWith(s, k, <<"t", "r", "u", "e">>) -> Good(TRUE, k + 4)
         [] StartsWith(s, k, <<"f", "a", "l", "s", "e">>) -> Good(FALSE, k + 5)
         [] OTHER -> Bad

\* the key and the operation name a text stands for
KeyOf(text) ==
  IF \E k \in DOMAIN KeyText : KeyText[k] = text
  THEN CHOOSE k \in DOMAIN KeyText : KeyText[k] = text ELSE "?"

OperationOf(text) ==
  IF \E k \in DOMAIN OperationText : OperationText[k] = text
  THEN CHOOSE k \in DOMAIN OperationText : OperationText[k] = text ELSE "?"

\* the members of an object from position k to the closing brace; of two equal
\* keys the later one stays
RECURSIVE ParseMembers(_, _, _)
ParseMembers(s, k, acc) ==
  LET k1 == SkipSpace(s, k)
      key == IF k1 <= Len(s) /\ s[k1] = QT THEN ScanString(s, k1 + 1, <<>>) ELSE Bad
      k2 == SkipSpace(s, key.next)
      val == ParseValue(s, SkipSpace(s, k2 + 1))
      name == KeyOf(key.value)
      v == IF name = "operation" THEN OperationOf(val.value) ELSE val.value
      k3 == SkipSpace(s, val.next)
  IN  IF ~key.ok THEN Bad
      ELSE IF k2 > Len(s) \/ s[k2] # ":" THEN Bad
      ELSE IF ~val.ok THEN Bad
      ELSE IF k3 > Len(s) THEN Bad
      ELSE IF s[k3] = "}" THEN Good((name :> v) @@ acc, k3 + 1)
      ELSE IF s[k3] = "," THEN ParseMembers(s, k3 + 1, (name :> v) @@ acc)
      ELSE Bad

\* json.loads(line) for a line holding one object
loads(line) ==
  LET k == SkipSpace(line, 1)
      k1 == SkipSpace(line, k + 1)
      obj == IF k1 <= Len(line) /\ line[k1] = "}" THEN Good(<<>>, k1 + 1)
             ELSE ParseMembers(line, k + 1, <<>>)
  IN  IF k > Len(line) \/ line[k] # "{" THEN Bad
      ELSE IF ~obj.ok THEN Bad
      ELSE IF SkipSpace(line, obj.next) <= Len(line) THEN Bad
      ELSE obj

\* `f.write(json.dumps(entry) + "\n")` for every entry
RECURSIVE WrittenLines(_)
WrittenLines(es) ==
  IF es = <<>> THEN <<>> ELSE dumps(es[1]) \o <<NL>> \o WrittenLines(Tail(es))

\* a plausible slip: the file is opened with "w"
save_truncating(entries, file) ==
  [exists |-> TRUE, text |-> WrittenLines(entries)]

\* UndoLog.save: the file after `open(self.path, "a")` and the writes
save(entries, file) ==
  [exists |-> TRUE, text |-> file.text \o WrittenLines(entries)]

\* a plausible slip: the buffer is kept after the save
Cleared_kept(entries) == entries

\* UndoLog.save: `self._entries.clear()`
Cleared(entries) == <<>>

\* where the line that starts at position k ends: at its newline, else at the end
LineEnd(text, k) ==
  LET ends == {i \in k..Len(text) : text[i] = NL}
  IN  IF ends = {} THEN Len(text) ELSE CHOOSE i \in ends : \A j \in ends : i <= j

\* `for line in f`: the entries of the lines of text from position k on
RECURSIVE ReadLines(_, _, _)
ReadLines(text, k, acc) ==
  IF k > Len(text) THEN [done |-> TRUE, ok |-> TRUE, entries |-> acc]
  ELSE LET e == LineEnd(text, k)
           line == SubSeq(text, k, e)
           got == loads(line)
       IN  IF Strip(line, JsonSpace) = <<>> THEN ReadLines(text, e + 1, acc)
           ELSE IF ~got.ok THEN [done |-> TRUE, ok |-> FALSE, entries |-> <<>>]
           ELSE ReadLines(text, e + 1, Append(acc, got.value))

\* UndoLog.read_all: the list returned, or ok = FALSE when json.loads raises
read_all(file) ==
  IF ~file.exists THEN [done |-> TRUE, ok |-> TRUE, entries |-> <<>>]
  ELSE ReadLines(file.text, 1, <<>>)

(***************************************************************************)
(* The watcher (watcher.py)                                                *)
(*                                                                         *)
(* The share a scan meets is a record: the files present (full paths), what *)
(* stat gives for each (or that it raises OSError), and the directories    *)
(* whose scandir raises OSError. The directories are fixed: the root holds *)
(* R and Q, R holds W. Sizes and modification times are integers. The      *)
(* watch-state file holds what WatchState.save hands to json.dump; writing *)
(* it does not fail. The watcher has a process_callback (main.py:467).     *)
(***************************************************************************)
\* settings.audio_extensions
audio_extensions ==
  {<<".", "m", "p", "3">>, <<".", "f", "l", "a", "c">>, <<".", "m", "4", "a">>, <<".", "o", "g", "g">>, <<".", "o", "p", "u", "s">>, <<".", "w", "a", "v">>, <<".", "a", "i", "f", "f">>}

\* str.endswith
EndsWith(s, suffix) ==
  /\ Len(suffix) <= Len(s)
  /\ SubSeq(s, Len(s) - Len(suffix) + 1, Len(s)) = suffix

\* `any(filename.lower().endswith(ext) for ext in settings.audio_extensions)`
IsAudio(filename) == \E ext \in audio_extensions : EndsWith(Lower(filename), ext)

\* FileState(path, size, modified)
FileState(path, size, modified) == [path |-> path, size |-> size, modified |-> modified]

\* the directories of the share and the names a directory can hold, in the
\* order scandir gives them
SubDirs(dirpath) ==
  IF dirpath = P_Root THEN <<<<"R">>, <<"Q">>>>
  ELSE IF dirpath = P_R THEN <<<<"W">>>>
  ELSE <<>>

N_y == <<"y", ".", "M", "P", "3">>
N_c == <<"c", ".", "j", "p", "g">>
EntryNames == <<N_x, N_y, N_c>>

\* the names of the files scandir gives for a directory
FileNames(sh, dirpath) ==
  SelectSeq(EntryNames, LAMBDA n : (dirpath \o <<BS>> \o n) \in sh.files)

\* SMBClient.walk: the (dirpath, dirnames, filenames) tuples; a directory whose
\* scandir raises OSError yields nothing, and nothing below it is visited
RECURSIVE WalkRecursive(_, _)
RECURSIVE WalkSubDirs(_, _, _)
WalkRecursive(sh, current_path) ==
  IF current_path \in sh.unreadable THEN <<>>
  ELSE <<[dirpath |-> current_path, dirnames |-> SubDirs(current_path),
          filenames |-> FileNames(sh, current_path)]>>
       \o WalkSubDirs(sh, current_path, SubDirs(current_path))

WalkSubDirs(sh, current_path, dirs) ==
  IF dirs = <<>> THEN <<>>
  ELSE WalkRecursive(sh, current_path \o <<BS>> \o dirs[1])
       \o WalkSubDirs(sh, current_path, Tail(dirs))

walk(sh) == WalkRecursive(sh, P_Root)

\* the full paths _scan_for_changes adds to current_files, in the order met
RECURSIVE Enumerated(_)
Enumerated(walked) ==
  IF walked = <<>> THEN <<>>
  ELSE LET d == walked[1]
           audio == SelectSeq(d.filenames, IsAudio)
       IN  [k \in 1..Len(audio) |-> d.dirpath \o <<BS>> \o audio[k]]
           \o Enumerated(Tail(walked))

\* a plausible slip: a file whose stat fails is recorded with no size and time
Observe_blind(st, sh, full_path) ==
  LET current_state == FileState(full_path, 0, 0)
  IN  IF full_path \notin DOMAIN st.known_files
      THEN [st EXCEPT !.new_files = Append(@, full_path),
                      !.known_files = (full_path :> current_state) @@ @]
      ELSE st

\* a plausible slip: every known file is taken as changed
Changed_always(current_state, old_state) == TRUE

\* a plausible slip: only the size is compared
Changed_size(current_state, old_state) == current_state.size # old_state.size

\* `current_state.size != old_state.size or current_state.modified != old_state.modified`
Changed(current_state, old_state) ==
  current_state.size # old_state.size \/ current_state.modified # old_state.modified

\* `self.state.known_files[full_path] = current_state` for a new path
Remember(known, full_path, current_state) == (full_path :> current_state) @@ known

\* _scan_for_changes: the body of the loop for one enumerated file
Observe(st, sh, full_path) ==
  LET file_stat == sh.stat[full_path]
      current_state == FileState(full_path, file_stat.st_size, file_stat.st_mtime)
  IN  IF ~file_stat.ok THEN st
      ELSE IF full_path \notin DOMAIN st.known_files
      THEN [st EXCEPT !.new_files = Append(@, full_path),
                      !.known_files = Remember(@, full_path, current_state)]
      ELSE IF Changed(current_state, st.known_files[full_path])
      THEN [st EXCEPT !.modified_files = Append(@, full_path),
                      !.known_files[full_path] = current_state]
      ELSE st

\* _scan_for_changes: the loop over the first n enumerated files
RECURSIVE ObserveAll(_, _, _, _)
ObserveAll(st, sh, paths, n) ==
  IF n = 0 THEN st ELSE Observe(ObserveAll(st, sh, paths, n - 1), sh, paths[n])

\* `del self.state.known_files[path]` for every deleted path
Forget(known, deleted) == [q \in DOMAIN known \ deleted |-> known[q]]

\* _scan_for_changes: what it returns and known_files as it leaves it
scan_for_changes(known, sh) ==
  LET paths == Enumerated(walk(sh))
      st == ObserveAll([new_files |-> <<>>, modified_files |-> <<>>,
                        known_files |-> known], sh, paths, Len(paths))
      current_files == Range(paths)
      deleted == DOMAIN st.known_files \ current_files
  IN  [new_files |-> st.new_files, modified_files |-> st.modified_files,
       deleted_files |-> deleted, known_files |-> Forget(st.known_files, deleted)]

\* _scan_for_changes left by an exception that is no OSError (the session could
\* not be registered, the connection broke) after n files were handled
scan_interrupted(known, sh, n) ==
  ObserveAll([new_files |-> <<>>, modified_files |-> <<>>, known_files |-> known],
             sh, Enumerated(walk(sh)), n).known_files

\* a plausible slip: the albums are collected in a list
AddAlbum_list(albums, album_dir) == Append(albums, album_dir)

\* `albums.add(parts[0])`
AddAlbum(albums, album_dir) ==
  IF album_dir \in Range(albums) THEN albums ELSE Append(albums, album_dir)

\* _get_albums_from_files, and the list(albums) made of it
RECURSIVE get_albums_from_files(_)
get_albums_from_files(file_paths) ==
  IF file_paths = <<>> THEN <<>>
  ELSE LET path == file_paths[Len(file_paths)]
           i == RFindChar(path, BS)
           rest == get_albums_from_files(SubSeq(file_paths, 1, Len(file_paths) - 1))
       IN  IF i = 0 THEN rest ELSE AddAlbum(rest, SubSeq(path, 1, i - 1))

\* decoded JSON documents: an object with its members, a string, an array
JObject(m) == [t |-> "object", m |-> m, s |-> <<>>]
JString(s) == [t |-> "string", m |-> <<>>, s |-> s]
JArray == [t |-> "array", m |-> <<>>, s |-> <<>>]

\* no file at WatchState.state_file
NoSnapshot == [exists |-> FALSE, valid |-> FALSE, data |-> JArray]

\* a file that json.load cannot decode
Undecodable == [exists |-> TRUE, valid |-> FALSE, data |-> JArray]

\* a file holding the JSON document data
Decodable(data) == [exists |-> TRUE, valid |-> TRUE, data |-> data]

\* datetime.isoformat of the time n seconds after the epoch, n < 60
isoformat(n) == <<"1", "9", "7", "0", "-", "0", "1", "-", "0", "1", "T", "0", "0", ":", "0", "0", ":">> \o Pad2(n)

\* datetime.fromisoformat: the time, or -1 when it raises ValueError
fromisoformat(s) ==
  IF /\ Len(s) = 19
     /\ SubSeq(s, 1, 17) = <<"1", "9", "7", "0", "-", "0", "1", "-", "0", "1", "T", "0", "0", ":", "0", "0", ":">>
     /\ s[18] \in Range(Digits) /\ s[19] \in Range(Digits)
     /\ DigitValue(s[18]) < 6
  THEN DigitValue(s[18]) * 10 + DigitValue(s[19])
  ELSE -1

\* WatchState.save: the file after json.dump
WatchState_save(known, last_scan) ==
  Decodable(JObject(
    [last_scan |-> JString(isoformat(last_scan)),
     known_files |->
       JObject([q \in DOMAIN known |->
                  JObject([path |-> known[q].path, size |-> known[q].size,
                           modified |-> known[q].modified])])]))

Returned(known) == [raised |-> "none", known_files |-> known]
Raised(exception) == [raised |-> exception, known_files |-> <<>>]

\* WatchState.load: what it raises and known_files of the WatchState it
\* returns.  JSONDecodeError and KeyError are caught and give the empty
\* WatchState; every other exception leaves load.  The members of known_files
\* are visited in the order of the file: of several members that raise, the
\* first decides (here any one of them).
WatchState_load(file) ==
  IF ~file.exists THEN Returned(<<>>)
  ELSE IF ~file.valid THEN Returned(<<>>)
  ELSE
    LET data == file.data
        members == IF "known_files" \in DOMAIN data.m THEN data.m.known_files
                   ELSE JObject(<<>>)
        stamp == IF "last_scan" \in DOMAIN data.m THEN data.m.last_scan
                 ELSE JString(isoformat(0))
        Fails(q) == \/ members.m[q].t # "object"
                    \/ {"path", "size", "modified"} \ DOMAIN members.m[q].m # {}
        failing == {q \in DOMAIN members.m : Fails(q)}
        first == CHOOSE q \in failing : TRUE
    IN  IF data.t # "object" THEN Raised("AttributeError")
        ELSE IF members.t # "object" THEN Raised("AttributeError")
        ELSE IF failing # {}
        THEN IF members.m[first].t # "object" THEN Raised("TypeError")
             ELSE Returned(<<>>)
        ELSE IF stamp.t # "string" THEN Raised("TypeError")
        ELSE IF fromisoformat(stamp.s) < 0 THEN Raised("ValueError")
        ELSE Returned([q \in DOMAIN members.m |->
                         FileState(members.m[q].m.path, members.m[q].m.size,
                                   members.m[q].m.modified)])

\* before the first scan
NoShare == [files |-> {}, stat |-> <<>>, unreadable |-> {}]

\* readback when the last call was not read_all
NotRead == [done |-> FALSE, ok |-> TRUE, entries |-> <<>>]

(***************************************************************************)
(* State                                                                   *)
(***************************************************************************)
VARIABLES
  tree,       \* the remote tree
  tree0,      \* the remote tree when the model starts (history)
  planned,    \* the action list came from calculate_renames
  album,      \* the arguments of that calculate_renames call
  actions,    \* the action list handed to execute_renames
  dry_run,    \* execute_renames: its dry_run argument
  idx,        \* execute_renames: position of the loop in folder_actions + file_actions
  success,    \* execute_renames: success
  errors,     \* execute_renames: errors
  undo,       \* UndoLog._entries
  trace,      \* one record per loop iteration run in this call (history)
  dryResult,  \* the pair an earlier dry run of the same list returned, else <<>>
  replan,     \* what calculate_renames returns on the tree after the live run
  pc          \* "idle", "ready", "loop", "returned", "replanned"

VARIABLES
  buffer,     \* UndoLog._entries of the UndoLog instance in use, entries with timestamp
  journal,    \* the file at UndoLog.path: whether it exists and its text
  logged,     \* every entry handed to log_rename, log_write, log_delete (history)
  saves,      \* how many entries had been logged at each save call (history)
  readback,   \* what the last call was, if it was read_all: its outcome
  instances   \* how many UndoLog instances have been constructed on the path

VARIABLES
  known_files,    \* WatchState.known_files of the watcher
  snapshot,       \* the file at WatchState.state_file
  running,        \* DirectoryWatcher._running
  wpc,            \* "new", "scan", "dispatch", "persist", "sleep", "stopped"
  cycle,          \* the number of the cycle in progress
  share,          \* the remote share as the scan of this cycle met it
  known0,         \* known_files when this cycle started (history)
  new_files,      \* run_once: new_files
  modified_files, \* run_once: modified_files
  deleted_files,  \* run_once: deleted_files
  albums,         \* run_once: list(albums), <<>> when it was not computed
  called,         \* the arguments of the process_callback calls of this cycle
  failed          \* run: the cycle ended in the except clause

VARIABLES
  call            \* the last call of a naming function: its argument and its result

VARIABLES
  client,             \* how the SMBClient was made: "none", "SMBClient", "smb_session"
  session_registered, \* SMBClient._session_registered
  registrations,      \* how many register_session calls have returned (history)
  invoked,            \* how many methods of the client have been called (history)
  last_op,            \* the method called last, "" when none
  remote_calls        \* how many calls of the smbclient library were issued (history)

VARIABLES
  fpc,            \* fix / process_albums: "idle", "artwork", "cover_write", "lyrics",
                  \* "lyrics_write", "save", "done", "failed"
  command,        \* "fix" or "watch" (process_albums)
  live,           \* not dry_run
  component,      \* "artwork", "lyrics", "all"
  album_no,       \* the album in hand
  track_no,       \* the track in hand in the lyrics loop
  listing,        \* the cover files scan_dir listed in the album in hand
  existed,        \* the .lrc paths client.exists found, all there before the
                  \* command began (history)
  stats,          \* fix: covers_added, covers_replaced, lyrics_added
  events          \* the log_write calls and the remote writes, in order (history)

VARIABLES
  stop_at,        \* where run stood when stop was first called from another
                  \* thread, "" when it was not called (history)
  unsaved,        \* the entries in the buffer of the UndoLog of watch: their paths
  pending,        \* the albums of the calls of process_albums that raised (history)
  again           \* the pending albums that were passed to process_albums once
                  \* more (history)

\* execute_renames: folder_actions + file_actions, fixed when the call is entered
queue == ExecutionOrder(actions)

rvars ==
  <<tree, tree0, planned, album, actions, dry_run, idx, success, errors, undo,
    trace, dryResult, replan, pc>>

jvars == <<buffer, journal, logged, saves, readback, instances>>

wvars ==
  <<known_files, snapshot, running, wpc, cycle, share, known0, new_files,
    modified_files, deleted_files, albums, called, failed>>

nvars == <<call>>

cvars == <<client, session_registered, registrations, invoked, last_op, remote_calls>>

fvars ==
  <<fpc, command, live, component, album_no, track_no, listing, existed, stats,
    events>>

hvars == <<stop_at, unsaved, pending, again>>

pvars == <<nvars, cvars, fvars, hvars>>

vars == <<rvars, jvars, wvars, pvars>>

\* no naming function has been called
NoCall == [fn |-> "", name |-> <<>>, meta |-> NoMeta, result |-> <<>>, again |-> FALSE]

\* no naming function called, no SMBClient made, no command started
PartsIdle ==
  /\ call = NoCall
  /\ client = "none"
  /\ session_registered = FALSE
  /\ registrations = 0
  /\ invoked = 0
  /\ last_op = ""
  /\ remote_calls = 0
  /\ fpc = "idle"
  /\ command = ""
  /\ live = FALSE
  /\ component = ""
  /\ album_no = 0
  /\ track_no = 0
  /\ listing = <<>>
  /\ existed = {}
  /\ stats = [covers_added |-> 0, covers_replaced |-> 0, lyrics_added |-> 0]
  /\ events = <<>>
  /\ stop_at = ""
  /\ unsaved = <<>>
  /\ pending = {}
  /\ again = {}

\* no UndoLog has been used on the journal path yet
JournalIdle ==
  /\ buffer = <<>>
  /\ journal = [exists |-> FALSE, text |-> <<>>]
  /\ logged = <<>>
  /\ saves = <<>>
  /\ readback = NotRead
  /\ instances = 1

\* no DirectoryWatcher has been constructed yet
WatcherIdle ==
  /\ known_files = <<>>
  /\ snapshot = NoSnapshot
  /\ running = FALSE
  /\ wpc = "new"
  /\ cycle = 0
  /\ share = NoShare
  /\ known0 = <<>>
  /\ new_files = <<>>
  /\ modified_files = <<>>
  /\ deleted_files = {}
  /\ albums = <<>>
  /\ called = <<>>
  /\ failed = FALSE

\* the rename planner and executor have not been called
RenamerIdle ==
  /\ tree0 = tree
  /\ planned = FALSE
  /\ album = NoAlbum
  /\ actions = <<>>
  /\ dry_run = FALSE
  /\ idx = 1
  /\ success = 0
  /\ errors = 0
  /\ undo = <<>>
  /\ trace = <<>>
  /\ dryResult = <<>>
  /\ replan = <<>>
  /\ pc = "idle"

Init ==
  /\ tree \in Trees
  /\ RenamerIdle
  /\ JournalIdle
  /\ WatcherIdle
  /\ PartsIdle

(***************************************************************************)
(* Operations                                                              *)
(***************************************************************************)
\* a caller hands execute_renames an action list of its own
Receive ==
  /\ pc = "idle"
  /\ \E list \in SeqsUpTo(ActionPool, MaxActions) : actions' = list
  /\ pc' = "ready"
  /\ UNCHANGED <<tree, tree0, planned, album, dry_run, idx, success, errors,
                 undo, trace, dryResult, replan>>
  /\ UNCHANGED <<jvars, wvars, pvars>>

\* calculate_renames(album_path, tracks, album_meta, track_metadata)
Plan ==
  /\ pc = "idle"
  /\ \E ap \in AlbumPaths, tr \in SeqsUpTo(FileInfos, MaxTracks),
        am \in AlbumMetas, tm \in TrackMetadatas :
       /\ album' = [album_path |-> ap, tracks |-> tr, album_meta |-> am,
                    track_metadata |-> tm]
       /\ actions' = calculate_renames(ap, tr, am, tm)
  /\ planned' = TRUE
  /\ pc' = "ready"
  /\ UNCHANGED <<tree, tree0, dry_run, idx, success, errors, undo, trace,
                 dryResult, replan>>
  /\ UNCHANGED <<jvars, wvars, pvars>>

\* the tracks handed to calculate_renames are files of the album directory, each
\* under its own name, none twice
AlbumListed(t0, al) ==
  /\ Resolve(al.album_path) \in DOMAIN t0
  /\ t0[Resolve(al.album_path)] = Dir
  /\ \A k \in 1..Len(al.tracks) :
       LET q == Resolve(al.tracks[k].path)
       IN  /\ q \in Files(t0)
           /\ Parent(q) = Resolve(al.album_path)
           /\ q[Len(q)] = al.tracks[k].name
           /\ \A j \in 1..Len(al.tracks) : al.tracks[j] = al.tracks[k] => j = k

\* execute_renames is entered: the counters are zeroed and the list is partitioned.
\* A plan is executed when it was computed from a listing of the album, and a
\* list that was run dry before is now run live.
Begin ==
  /\ pc = "ready"
  /\ planned => AlbumListed(tree0, album)
  /\ \E dry \in BOOLEAN :
       /\ dryResult # <<>> => ~dry
       /\ dry_run' = dry
  /\ idx' = 1
  /\ success' = 0
  /\ errors' = 0
  /\ trace' = <<>>
  /\ pc' = "loop"
  /\ UNCHANGED <<tree, tree0, planned, album, actions, undo, dryResult, replan>>
  /\ UNCHANGED <<jvars, wvars, pvars>>

\* one iteration of `for action in folder_actions + file_actions`
Step ==
  /\ pc = "loop"
  /\ idx <= Len(queue)
  /\ \E fault \in BOOLEAN :
       LET a == queue[idx]
           r == Attempt(tree, a, dry_run, fault)
           c == Counted(success, errors, r.ok)
       IN  /\ tree' = r.tree
           /\ success' = c[1]
           /\ errors' = c[2]
           /\ undo' = Journal(undo, a, r.called, r.ok)
           /\ idx' = NextIndex(idx, Len(queue), r.ok)
           /\ trace' = Append(trace,
                [k |-> idx, src_existed |-> exists(tree, a.src),
                 dst_existed |-> exists(tree, a.dst), called |-> r.called,
                 ok |-> r.ok, moved |-> r.tree # tree,
                 io_error |-> r.called /\ ~r.ok
                              /\ ~RenameRefused(tree, Resolve(a.src), Resolve(a.dst))])
  /\ UNCHANGED <<tree0, planned, album, actions, dry_run, dryResult, replan, pc>>
  /\ UNCHANGED <<jvars, wvars, pvars>>

\* `return success, errors`
Return ==
  /\ pc = "loop"
  /\ idx > Len(queue)
  /\ pc' = "returned"
  /\ UNCHANGED <<tree, tree0, planned, album, actions, dry_run, idx, success,
                 errors, undo, trace, dryResult, replan>>
  /\ UNCHANGED <<jvars, wvars, pvars>>

\* the caller keeps the pair of a dry run and goes on to run the same list live
KeepDryResult ==
  /\ pc = "returned"
  /\ dry_run
  /\ dryResult' = <<success, errors>>
  /\ pc' = "ready"
  /\ UNCHANGED <<tree, tree0, planned, album, actions, dry_run, idx, success,
                 errors, undo, trace, replan>>
  /\ UNCHANGED <<jvars, wvars, pvars>>

\* the album as a caller finds it after the live run: the album directory at its
\* new path if it was moved, every track where its file now is, each file with
\* the metadata it had
PathString(q) == <<BS, BS>> \o Join(q, BS)

\* where the album directory is after the run
AlbumPathAfter(t, al, acts) ==
  IF exists(t, al.album_path) \/ acts = <<>> THEN al.album_path ELSE acts[1].dst

\* the FileInfo of the file `track` named before the run
ListedAfter(t0, t, new_path, track) ==
  LET q == CHOOSE q \in Files(t) : t[q] = t0[Resolve(track.path)]
      name == q[Len(q)]
  IN  IF Parent(q) = Resolve(new_path)
      THEN FileInfo(new_path \o <<BS>> \o name, name)
      ELSE FileInfo(PathString(q), name)

\* the per-track metadata under the paths of the new listing
MetadataAfter(old_tracks, new_tracks, track_metadata) ==
  LET known == {k \in 1..Len(old_tracks) : old_tracks[k].path \in DOMAIN track_metadata.map}
      at == {<<new_tracks[k].path, old_tracks[k].path>> : k \in known}
  IN  [given |-> track_metadata.given,
       map |-> [p \in {e[1] : e \in at} |->
                  track_metadata.map[(CHOOSE e \in at : e[1] = p)[2]]]]

\* calculate_renames is called again on the album after a live run
Replan ==
  /\ pc = "returned"
  /\ planned
  /\ ~dry_run
  /\ LET new_path == AlbumPathAfter(tree, album, actions)
         new_tracks == [k \in 1..Len(album.tracks) |->
                          ListedAfter(tree0, tree, new_path, album.tracks[k])]
     IN  replan' = calculate_renames(new_path, new_tracks, album.album_meta,
                     MetadataAfter(album.tracks, new_tracks, album.track_metadata))
  /\ pc' = "replanned"
  /\ UNCHANGED <<tree, tree0, planned, album, actions, dry_run, idx, success,
                 errors, undo, trace, dryResult>>
  /\ UNCHANGED <<jvars, wvars, pvars>>

Next == Receive \/ Plan \/ Begin \/ Step \/ Return \/ KeepDryResult \/ Replan

Spec == Init /\ [][Next]_vars

(***************************************************************************)
(* The undo journal in use                                                 *)
(***************************************************************************)
\* what datetime.now().isoformat() may give for an entry (two values, so that
\* two entries can carry the same timestamp)
Timestamps == {<<"T", "0", "0", ":", "0", "0", ":", "0", "1">>, <<"T", "0", "0", ":", "0", "0", ":", "0", "2">>}

P_Cover == P_W \o <<BS, "c", "o", "v", "e", "r", ".", "j", "p", "g">>
P_Quoted == P_W \o <<BS, "a", QT, "b", ".", "l", "r", "c">>

\* the entries the log_* methods can be asked to record
LoggableEntries ==
  {StampedRename(ts, P_Wx, P_WT) : ts \in Timestamps}
  \cup {WriteEntry(<<"T", "0", "0", ":", "0", "0", ":", "0", "1">>, P_Cover, TRUE, 120),
        WriteEntry(<<"T", "0", "0", ":", "0", "0", ":", "0", "2">>, P_Quoted, FALSE, 0),
        DeleteEntry(<<"T", "0", "0", ":", "0", "0", ":", "0", "2">>, P_Wx)}

\* UndoLog.log_rename / log_write / log_delete: `self._entries.append(...)`
Log(entry) ==
  /\ Len(logged) < MaxLogged
  /\ buffer' = Append(buffer, entry)
  /\ logged' = Append(logged, entry)
  /\ readback' = NotRead
  /\ UNCHANGED <<journal, saves, instances>>
  /\ UNCHANGED <<rvars, wvars, pvars>>

LogRename == \E e \in LoggableEntries : e.operation = "rename" /\ Log(e)

LogWrite == \E e \in LoggableEntries : e.operation = "write" /\ Log(e)

LogDelete == \E e \in LoggableEntries : e.operation = "delete" /\ Log(e)

\* UndoLog.save
Save ==
  /\ Len(saves) < MaxSaves
  /\ journal' = save(buffer, journal)
  /\ buffer' = Cleared(buffer)
  /\ saves' = Append(saves, Len(logged))
  /\ readback' = NotRead
  /\ UNCHANGED <<logged, instances>>
  /\ UNCHANGED <<rvars, wvars, pvars>>

\* UndoLog.save, the process being killed while it writes (power loss, kill,
\* Ctrl+C): the file holds what was written so far, cut after the first
\* character or before the last newline.  The next process has a new UndoLog.
SaveCut ==
  /\ buffer # <<>>
  /\ instances < MaxInstances
  /\ \E k \in {1, Len(WrittenLines(buffer)) - 1} :
       journal' = [exists |-> TRUE,
                   text |-> journal.text \o SubSeq(WrittenLines(buffer), 1, k)]
  /\ instances' = instances + 1
  /\ buffer' = <<>>
  /\ readback' = NotRead
  /\ UNCHANGED <<logged, saves>>
  /\ UNCHANGED <<rvars, wvars, pvars>>

\* UndoLog.read_all
ReadAll ==
  /\ ~readback.done
  /\ readback' = read_all(journal)
  /\ UNCHANGED <<buffer, journal, logged, saves, instances>>
  /\ UNCHANGED <<rvars, wvars, pvars>>

\* UndoLog(path): another instance on the same path replaces the one in use
NewUndoLog ==
  /\ instances < MaxInstances
  /\ instances' = instances + 1
  /\ buffer' = <<>>
  /\ readback' = NotRead
  /\ UNCHANGED <<journal, logged, saves>>
  /\ UNCHANGED <<rvars, wvars, pvars>>

InitJournal ==
  /\ tree = BaseTree
  /\ RenamerIdle
  /\ JournalIdle
  /\ WatcherIdle
  /\ PartsIdle

NextJournal ==
  LogRename \/ LogWrite \/ LogDelete \/ Save \/ SaveCut \/ ReadAll \/ NewUndoLog

SpecJournal == InitJournal /\ [][NextJournal]_vars

(***************************************************************************)
(* The watcher in use                                                      *)
(***************************************************************************)
P_Wy == P_W \o <<BS>> \o N_y
P_Wc == P_W \o <<BS>> \o N_c
P_Qx == P_Q \o <<BS>> \o N_x

Absent == [present |-> FALSE, ok |-> FALSE, st_size |-> 0, st_mtime |-> 0]
StatFails == [present |-> TRUE, ok |-> FALSE, st_size |-> 0, st_mtime |-> 0]
StatGives(size, mtime) ==
  [present |-> TRUE, ok |-> TRUE, st_size |-> size, st_mtime |-> mtime]

\* the shares a scan can meet: x.flac of W changes in size or cannot be
\* stat-ed, y.MP3 of W changes in time, c.jpg is no audio file, Q holds x.flac;
\* W or R may be unreadable
ShareOf(wx, wy, qx, unreadable) ==
  LET entry == (P_Wx :> wx) @@ (P_Wy :> wy) @@ (P_Wc :> StatGives(9, 1)) @@ (P_Qx :> qx)
      present == {q \in DOMAIN entry : entry[q].present}
  IN  [files |-> present, stat |-> [q \in present |-> entry[q]],
       unreadable |-> unreadable]

Shares ==
  {ShareOf(wx, wy, qx, u) :
     wx \in {Absent, StatGives(1, 1), StatGives(2, 1), StatFails},
     wy \in {Absent, StatGives(1, 1), StatGives(1, 2)},
     qx \in {Absent, StatGives(1, 1)},
     u \in {{}, {P_W}, {P_R}}}

\* the watch-state file a watcher can find when it is constructed: none, one
\* that json.load cannot decode, one written by an earlier process
Snapshots ==
  {NoSnapshot,
   Undecodable,
   WatchState_save((P_Wx :> FileState(P_Wx, 1, 1)) @@ (P_Qx :> FileState(P_Qx, 1, 1)), 0)}

\* the watch-state files that decode but were not written by save: an entry
\* lacks "modified"; the document is an array; "known_files" is an array; an
\* entry is a string; "last_scan" is no timestamp; "last_scan" is an array
Malformed ==
  LET entry == JObject([path |-> P_Wx, size |-> 1, modified |-> 1])
      stamp == JString(isoformat(0))
      Doc(last_scan, known) ==
        Decodable(JObject([last_scan |-> last_scan, known_files |-> known]))
  IN  {Doc(stamp, JObject(P_Wx :> JObject([path |-> P_Wx, size |-> 1]))),
       Decodable(JArray),
       Doc(stamp, JArray),
       Doc(stamp, JObject(P_Wx :> JString(P_Wx))),
       Doc(JString(<<"y", "e", "s", "t", "e", "r", "d", "a", "y">>), JObject(P_Wx :> entry)),
       Doc(JArray, JObject(P_Wx :> entry))}

\* a plausible slip: the exception of a cycle is not caught and ends run
OnException_uncaught == "stopped"

\* run: `except Exception` logs the failure of the cycle and goes on to the sleep
OnException == "sleep"

\* DirectoryWatcher.__init__: `self.state = WatchState.load()`
Construct ==
  /\ wpc = "new"
  /\ LET state == WatchState_load(snapshot)
     IN  IF state.raised = "none"
         THEN /\ known_files' = state.known_files
              /\ wpc' = "constructed"
         ELSE /\ wpc' = "crashed"
              /\ UNCHANGED known_files
  /\ running' = FALSE
  /\ UNCHANGED <<snapshot, cycle, share, known0, new_files, modified_files,
                 deleted_files, albums, called, failed>>
  /\ UNCHANGED <<rvars, jvars, pvars>>

\* run: `self._running = True`
Run ==
  /\ wpc = "constructed"
  /\ running' = TRUE
  /\ wpc' = "top"
  /\ UNCHANGED <<known_files, snapshot, cycle, share, known0, new_files,
                 modified_files, deleted_files, albums, called, failed>>
  /\ UNCHANGED <<rvars, jvars, pvars>>

\* a plausible slip: `while True`, the flag is not looked at
LoopTest_always ==
  /\ wpc = "top"
  /\ cycle < MaxCycles
  /\ wpc' = "scan"
  /\ cycle' = cycle + 1
  /\ known0' = known_files
  /\ share' = NoShare
  /\ new_files' = <<>>
  /\ modified_files' = <<>>
  /\ deleted_files' = {}
  /\ albums' = <<>>
  /\ called' = <<>>
  /\ failed' = FALSE
  /\ UNCHANGED <<known_files, snapshot, running>>
  /\ UNCHANGED <<rvars, jvars, pvars>>

\* run: `while self._running`, and run_once is entered
LoopTest ==
  /\ wpc = "top"
  /\ running => cycle < MaxCycles
  /\ IF running
     THEN /\ wpc' = "scan"
          /\ cycle' = cycle + 1
          /\ known0' = known_files
          /\ share' = NoShare
          /\ new_files' = <<>>
          /\ modified_files' = <<>>
          /\ deleted_files' = {}
          /\ albums' = <<>>
          /\ called' = <<>>
          /\ failed' = FALSE
     ELSE /\ wpc' = "stopped"
          /\ UNCHANGED <<cycle, known0, share, new_files, modified_files,
                         deleted_files, albums, called, failed>>
  /\ UNCHANGED <<known_files, snapshot, running>>
  /\ UNCHANGED <<rvars, jvars, pvars>>

\* run_once: `self._scan_for_changes()` returns, the share being one of shares
ScanOf(shares) ==
  /\ wpc = "scan"
  /\ \E sh \in shares :
       LET r == scan_for_changes(known_files, sh)
       IN  /\ share' = sh
           /\ new_files' = r.new_files
           /\ modified_files' = r.modified_files
           /\ deleted_files' = r.deleted_files
           /\ known_files' = r.known_files
  /\ wpc' = "dispatch"
  /\ UNCHANGED <<snapshot, running, cycle, known0, albums, called, failed>>
  /\ UNCHANGED <<rvars, jvars, pvars>>

\* run_once: `self._scan_for_changes()` raises; run: the except clause
ScanRaisesOf(shares) ==
  /\ wpc = "scan"
  /\ \E sh \in shares :
       \E n \in 0..Len(Enumerated(walk(sh))) :
         /\ share' = sh
         /\ known_files' = scan_interrupted(known_files, sh, n)
  /\ failed' = TRUE
  /\ wpc' = OnException
  /\ UNCHANGED <<snapshot, running, cycle, known0, new_files, modified_files,
                 deleted_files, albums, called>>
  /\ UNCHANGED <<rvars, jvars, pvars>>

Scan == ScanOf(Shares)

ScanRaises == ScanRaisesOf(Shares)

\* run_once: `files_to_process = new_files + modified_files` and the call of
\* process_callback, which returns or raises
Dispatch ==
  /\ wpc = "dispatch"
  /\ LET files_to_process == new_files \o modified_files
     IN  IF files_to_process # <<>>
         THEN /\ albums' = get_albums_from_files(files_to_process)
              /\ called' = Append(called, albums')
              /\ \E raises \in BOOLEAN :
                   /\ failed' = raises
                   /\ wpc' = IF raises THEN OnException ELSE "persist"
         ELSE /\ wpc' = "persist"
              /\ UNCHANGED <<albums, called, failed>>
  /\ UNCHANGED <<known_files, snapshot, running, cycle, share, known0, new_files,
                 modified_files, deleted_files>>
  /\ UNCHANGED <<rvars, jvars, pvars>>

\* run_once: `self.state.last_scan = datetime.now()`, `self.state.save()`, return
Persist ==
  /\ wpc = "persist"
  /\ snapshot' = WatchState_save(known_files, cycle)
  /\ wpc' = "sleep"
  /\ UNCHANGED <<known_files, running, cycle, share, known0, new_files,
                 modified_files, deleted_files, albums, called, failed>>
  /\ UNCHANGED <<rvars, jvars, pvars>>

\* run: `time.sleep(self.poll_interval)` returns
Sleep ==
  /\ wpc = "sleep"
  /\ wpc' = "top"
  /\ UNCHANGED <<known_files, snapshot, running, cycle, share, known0, new_files,
                 modified_files, deleted_files, albums, called, failed>>
  /\ UNCHANGED <<rvars, jvars, pvars>>

\* stop, called from outside the loop at any moment
Stop ==
  /\ wpc \notin {"new", "crashed", "stopped"}
  /\ running' = FALSE
  /\ UNCHANGED <<known_files, snapshot, wpc, cycle, share, known0, new_files,
                 modified_files, deleted_files, albums, called, failed>>
  /\ UNCHANGED <<rvars, jvars, pvars>>

\* watch: Ctrl+C raises KeyboardInterrupt in the thread that is inside run; it
\* is no Exception, so the except clause of run lets it through, run is left
\* where it stands, and the except clause of watch calls stop.  A scan is left
\* after any number of files; a save that was begun leaves a truncated file;
\* a cycle that was under way has failed.
InterruptOf(shares) ==
  /\ wpc \in {"top", "scan", "dispatch", "persist", "sleep"}
  /\ running
  /\ IF wpc = "scan"
     THEN \E sh \in shares :
            \E n \in 0..Len(Enumerated(walk(sh))) :
              /\ share' = sh
              /\ known_files' = scan_interrupted(known_files, sh, n)
     ELSE UNCHANGED <<share, known_files>>
  /\ IF wpc = "persist"
     THEN snapshot' \in {snapshot, Undecodable}
     ELSE UNCHANGED snapshot
  /\ failed' = (failed \/ wpc \in {"scan", "dispatch", "persist"})
  /\ running' = FALSE
  /\ wpc' = "stopped"
  /\ UNCHANGED <<cycle, known0, new_files, modified_files, deleted_files,
                 albums, called>>
  /\ UNCHANGED <<rvars, jvars, pvars>>

Interrupt == InterruptOf(Shares)

InitWatcher ==
  /\ tree = BaseTree
  /\ RenamerIdle
  /\ JournalIdle
  /\ PartsIdle
  /\ known_files = <<>>
  /\ snapshot \in Snapshots \cup Malformed
  /\ running = FALSE
  /\ wpc = "new"
  /\ cycle = 0
  /\ share = NoShare
  /\ known0 = <<>>
  /\ new_files = <<>>
  /\ modified_files = <<>>
  /\ deleted_files = {}
  /\ albums = <<>>
  /\ called = <<>>
  /\ failed = FALSE

NextWatcher ==
  Construct \/ Run \/ LoopTest \/ Scan \/ ScanRaises \/ Dispatch \/ Persist
  \/ Sleep \/ Stop \/ Interrupt

SpecWatcher == InitWatcher /\ [][NextWatcher]_vars

\* the loop alone, on three shares: an empty one, one with x.flac in W, one
\* with a larger x.flac in W and x.flac in Q
FewShares ==
  {ShareOf(Absent, Absent, Absent, {}),
   ShareOf(StatGives(1, 1), Absent, Absent, {}),
   ShareOf(StatGives(2, 1), Absent, StatGives(1, 1), {})}

ScanFew == ScanOf(FewShares)

ScanFewRaises == ScanRaisesOf(FewShares)

InterruptFew == InterruptOf(FewShares)

NextLoop ==
  Construct \/ Run \/ LoopTest \/ ScanFew \/ ScanFewRaises \/ Dispatch \/ Persist
  \/ Sleep \/ Stop \/ InterruptFew

\* the loop runs in one thread that is never held up for ever: each of its
\* steps is taken once it is due (a stop request is not bound to come)
SpecLoop ==
  /\ InitWatcher
  /\ [][NextLoop]_vars
  /\ WF_vars(LoopTest) /\ WF_vars(ScanFew \/ ScanFewRaises) /\ WF_vars(Dispatch)
  /\ WF_vars(Persist) /\ WF_vars(Sleep)

(***************************************************************************)
(* The naming functions in use                                             *)
(***************************************************************************)
\* a letter, an illegal character, a control character, the dot, the
\* underscore, the space and a Unicode space
NameChars == {"a", ":", "\t", ".", "_", " ", "NBSP"}

Names == SeqsUpTo(NameChars, MaxName)

S_WAVE == <<"W", "A", "V", "E">>

\* the format fields of the metadata extract_metadata can produce ("WAVE" is
\* the type name of a file mutagen knows and the code does not), and an empty
\* and a lower-case format
FormatMetas ==
  {[NoMeta EXCEPT !.format = f, !.bit_depth = bd, !.sample_rate = sr, !.bitrate = br] :
     f \in {S_FLAC, S_MP3, S_AAC, S_M4A, S_OGG, S_Opus, S_WAVE, <<>>, <<"f", "l", "a", "c">>},
     bd \in {0, 24}, sr \in {0, 96000}, br \in {0, 320}}

FolderMetas ==
  {[m EXCEPT !.album_artist = aa, !.artist = ar, !.album = al, !.year = y] :
     m \in {[NoMeta EXCEPT !.format = S_FLAC, !.bit_depth = 16, !.sample_rate = 44100],
            [NoMeta EXCEPT !.format = S_WAVE], NoMeta},
     aa \in {<<>>, <<"P", "i", "n", "k", " ", "F", "l", "o", "y", "d">>, <<"V", "a", "r", "i", "o", "u", "s", " ", "A", "r", "t", "i", "s", "t", "s">>, <<"O", "S", "T">>, <<" ">>},
     ar \in {<<>>, <<"a", ":", "b">>},
     al \in {<<>>, <<"T", "h", "e", " ", "W", "a", "l", "l">>, <<"a", "?">>},
     y \in {0, 1979}}

TrackMetas ==
  {[NoMeta EXCEPT !.title = t, !.track_number = n, !.disc_number = d,
                  !.total_discs = td, !.file_path = fp] :
     t \in {<<>>, <<"M", "o", "n", "e", "y">>, <<"a", ":", "b">>},
     n \in {0, 5, 12},
     d \in {0, 1, 2},
     td \in {1, 2},
     fp \in {<<>>, P_Wx, <<"a", "/", "b", ".", "M", "P", "3">>, <<"a", "/", "b">>, <<"a", ".", "b", "/", "c">>}}

\* sanitize_filename(name)
SanitizeFilename ==
  /\ call = NoCall
  /\ \E name \in Names :
       call' = [NoCall EXCEPT !.fn = "sanitize_filename", !.name = name,
                             !.result = sanitize_filename(name)]
  /\ UNCHANGED <<rvars, jvars, wvars, cvars, fvars, hvars>>

\* sanitize_filename applied to what sanitize_filename returned
SanitizeAgain ==
  /\ call.fn = "sanitize_filename"
  /\ ~call.again
  /\ call' = [call EXCEPT !.name = call.result,
                          !.result = sanitize_filename(call.result),
                          !.again = TRUE]
  /\ UNCHANGED <<rvars, jvars, wvars, cvars, fvars, hvars>>

\* TrackMetadata.format_tag
FormatTag ==
  /\ call = NoCall
  /\ \E meta \in FormatMetas :
       call' = [NoCall EXCEPT !.fn = "format_tag", !.meta = meta,
                             !.result = format_tag(meta)]
  /\ UNCHANGED <<rvars, jvars, wvars, cvars, fvars, hvars>>

\* generate_folder_name(meta)
GenerateFolderName ==
  /\ call = NoCall
  /\ \E meta \in FolderMetas :
       call' = [NoCall EXCEPT !.fn = "generate_folder_name", !.meta = meta,
                             !.result = generate_folder_name(meta)]
  /\ UNCHANGED <<rvars, jvars, wvars, cvars, fvars, hvars>>

\* generate_track_filename(meta)
GenerateTrackFilename ==
  /\ call = NoCall
  /\ \E meta \in TrackMetas :
       call' = [NoCall EXCEPT !.fn = "generate_track_filename", !.meta = meta,
                             !.result = generate_track_filename(meta)]
  /\ UNCHANGED <<rvars, jvars, wvars, cvars, fvars, hvars>>

InitNaming ==
  /\ tree = BaseTree
  /\ RenamerIdle
  /\ JournalIdle
  /\ WatcherIdle
  /\ PartsIdle

NextNaming ==
  SanitizeFilename \/ SanitizeAgain \/ FormatTag \/ GenerateFolderName
  \/ GenerateTrackFilename

SpecNaming == InitNaming /\ [][NextNaming]_vars

(***************************************************************************)
(* The session of an SMBClient (smb_client.py)                             *)
(*                                                                         *)
(* register_session of the smbclient library returns or raises; a method   *)
(* that got past _ensure_session goes on to call the library.              *)
(***************************************************************************)
\* the methods of SMBClient that start with self._ensure_session() (read_text
\* and write_text do so through read_file and write_file)
ClientMethods ==
  {"list_dir", "scan_dir", "walk", "read_file", "write_file", "read_text",
   "write_text", "exists", "is_dir", "get_size", "mkdir", "rename", "remove",
   "rmdir"}

\* a plausible slip: the flag is not consulted
ensure_session_each(registered, ok) ==
  [session_registered |-> registered \/ ok, registered_now |-> IF ok THEN 1 ELSE 0,
   raised |-> ~ok]

\* SMBClient._ensure_session, register_session returning (ok) or raising
ensure_session(registered, ok) ==
  IF registered
  THEN [session_registered |-> TRUE, registered_now |-> 0, raised |-> FALSE]
  ELSE [session_registered |-> ok, registered_now |-> IF ok THEN 1 ELSE 0,
        raised |-> ~ok]

\* SMBClient(...)
NewClient ==
  /\ client = "none"
  /\ client' = "SMBClient"
  /\ session_registered' = FALSE
  /\ UNCHANGED <<registrations, invoked, last_op, remote_calls>>
  /\ UNCHANGED <<rvars, jvars, wvars, nvars, fvars, hvars>>

\* smb_session(): `client = SMBClient()`, `client._ensure_session()`, `yield
\* client`; when the registration raises no client is handed out
SmbSession ==
  /\ client = "none"
  /\ \E ok \in BOOLEAN :
       LET session == ensure_session(FALSE, ok)
       IN  /\ client' = IF session.raised THEN "none" ELSE "smb_session"
           /\ session_registered' = session.session_registered
           /\ registrations' = registrations + session.registered_now
  /\ UNCHANGED <<invoked, last_op, remote_calls>>
  /\ UNCHANGED <<rvars, jvars, wvars, nvars, fvars, hvars>>

\* a method of the client: `self._ensure_session()`, then the call of the
\* library (for walk: when the generator is first advanced)
Operation ==
  /\ client # "none"
  /\ invoked < MaxCalls
  /\ \E op \in ClientMethods, ok \in BOOLEAN :
       LET session == ensure_session(session_registered, ok)
       IN  /\ session_registered' = session.session_registered
           /\ registrations' = registrations + session.registered_now
           /\ remote_calls' = IF session.raised THEN remote_calls ELSE remote_calls + 1
           /\ last_op' = IF session.raised THEN "raised" ELSE op
  /\ invoked' = invoked + 1
  /\ UNCHANGED client
  /\ UNCHANGED <<rvars, jvars, wvars, nvars, fvars, hvars>>

\* _scan_for_changes: `stat(full_path)` of the library, called directly for a
\* file of a directory that client.walk() has yielded
ScanStat ==
  /\ last_op = "walk"
  /\ remote_calls < MaxCalls + 1
  /\ remote_calls' = remote_calls + 1
  /\ UNCHANGED <<client, session_registered, registrations, invoked, last_op>>
  /\ UNCHANGED <<rvars, jvars, wvars, nvars, fvars, hvars>>

InitClient ==
  /\ tree = BaseTree
  /\ RenamerIdle
  /\ JournalIdle
  /\ WatcherIdle
  /\ PartsIdle

NextClient == NewClient \/ SmbSession \/ Operation \/ ScanStat

SpecClient == InitClient /\ [][NextClient]_vars

(***************************************************************************)
(* The cover and lyrics writes of fix and of watch.process_albums (main.py)*)
(***************************************************************************)
Commands == {"fix", "watch"}

\* click.Choice of --component
Components == {"naming", "artwork", "lyrics", "all"}

\* f"{album_path}\\cover.jpg" is file 0 of the album, the .lrc beside track k
\* is file k
RemotePath(a, k) == [album |-> a, file |-> k]

\* an entry of the album directory with the name of a cover
CoverItem(name, size, readable) == [name |-> name, size |-> size, readable |-> readable]

\* the cover files an album directory can hold, in the order of scandir:
\* none, a cover.jpg, an empty one, one that cannot be read, a cover.png alone,
\* and both
Listings ==
  { <<>>,
    <<CoverItem("cover.jpg", 2, TRUE)>>,
    <<CoverItem("cover.jpg", 0, TRUE)>>,
    <<CoverItem("cover.jpg", 2, FALSE)>>,
    <<CoverItem("cover.png", 3, TRUE)>>,
    <<CoverItem("cover.jpg", 2, TRUE), CoverItem("cover.png", 3, TRUE)>> }

\* cover_data of no cover
None == [given |-> FALSE, size |-> 0]

\* the loop over items: cover_data is what the last cover file that could be
\* read holds
RECURSIVE CoverData(_)
CoverData(items) ==
  IF items = <<>> THEN None
  ELSE LET item == items[Len(items)]
       IN  IF item.readable THEN [given |-> TRUE, size |-> item.size]
           ELSE CoverData(SubSeq(items, 1, Len(items) - 1))

\* a plausible slip: the write issued without its journal entry
log_write_nothing(log, path, had_previous, previous_size) == log

\* UndoLog.log_write: one more entry in the buffer
log_write(log, path, had_previous, previous_size) ==
  Append(log, [op |-> "log_write", path |-> path, had_previous |-> had_previous,
               previous_size |-> previous_size])

\* client.write_file / client.write_text as the remote end sees it
RemoteWrite(log, path) ==
  Append(log, [op |-> "write", path |-> path, had_previous |-> FALSE,
               previous_size |-> 0])

\* the command is entered: fix (195-216) or the callback process_albums (388)
FixStart ==
  /\ fpc = "idle"
  /\ \E c \in Commands, l \in BOOLEAN, comp \in Components :
       /\ command' = c
       /\ live' = l
       /\ component' = comp
  /\ fpc' = "album"
  /\ UNCHANGED <<album_no, track_no, listing, existed, stats, events>>
  /\ UNCHANGED <<rvars, jvars, wvars, nvars, cvars, hvars>>

\* the loop over the albums up to the artwork step: an album that cannot be
\* scanned, has no tracks or no readable metadata is passed over
NextAlbum ==
  /\ fpc = "album"
  /\ \/ /\ album_no < MaxAlbums
        /\ album_no' = album_no + 1
        /\ \E usable \in BOOLEAN :
             IF usable
             THEN fpc' = "artwork" /\ listing' \in Listings
             ELSE fpc' = "album" /\ listing' = <<>>
     \/ /\ album_no' = album_no
        /\ listing' = <<>>
        /\ fpc' = "save"
  /\ track_no' = 0
  /\ UNCHANGED <<command, live, component, existed, stats, events>>
  /\ UNCHANGED <<rvars, jvars, wvars, nvars, cvars, hvars>>

\* fix: `if cover_data: covers_replaced += 1 else: covers_added += 1`
CoverCounted(st, cover_data) ==
  IF command # "fix" THEN st
  ELSE IF cover_data.given /\ cover_data.size > 0
       THEN [st EXCEPT !.covers_replaced = @ + 1]
       ELSE [st EXCEPT !.covers_added = @ + 1]

\* the artwork step up to and with undo_log.log_write
Artwork ==
  /\ fpc = "artwork"
  /\ LET cover_data == CoverData(listing)
     IN  \E should_replace \in (IF cover_data.given THEN BOOLEAN ELSE {TRUE}),
            cover \in BOOLEAN :
           IF component \in {"artwork", "all"} /\ should_replace /\ cover
           THEN IF live
                THEN /\ events' =
                          log_write(events, RemotePath(album_no, 0), cover_data.given,
                                    IF cover_data.given THEN cover_data.size ELSE 0)
                     /\ fpc' = "cover_write"
                     /\ UNCHANGED <<listing, stats>>
                ELSE /\ events' = events
                     /\ fpc' = "lyrics"
                     /\ listing' = <<>>
                     /\ stats' = CoverCounted(stats, cover_data)
           ELSE /\ events' = events
                /\ fpc' = "lyrics"
                /\ listing' = <<>>
                /\ stats' = stats
  /\ UNCHANGED <<command, live, component, album_no, track_no, existed>>
  /\ UNCHANGED <<rvars, jvars, wvars, nvars, cvars, hvars>>

\* client.write_file(target_path, cover.data); an OSError leaves the command
CoverWrite ==
  /\ fpc = "cover_write"
  /\ events' = RemoteWrite(events, RemotePath(album_no, 0))
  /\ \E ok \in BOOLEAN :
       /\ fpc' = IF ok THEN "lyrics" ELSE "failed"
       /\ stats' = IF ok THEN CoverCounted(stats, CoverData(listing)) ELSE stats
  /\ listing' = <<>>
  /\ UNCHANGED <<command, live, component, album_no, track_no, existed>>
  /\ UNCHANGED <<rvars, jvars, wvars, nvars, cvars, hvars>>

\* a plausible slip: the lyrics fetched and written whether or not the .lrc is there
FetchesLyrics_over(readable, lrc_exists, lyrics) == readable /\ lyrics

\* `if not client.exists(lrc_path)`, `if lyrics and (...)`, for a track whose
\* metadata could be read
FetchesLyrics(readable, lrc_exists, lyrics) == readable /\ ~lrc_exists /\ lyrics

\* fix: `stats["lyrics_added"] += 1`
LyricsCounted(st) ==
  IF command # "fix" THEN st ELSE [st EXCEPT !.lyrics_added = @ + 1]

\* one turn of the loop over the tracks up to and with undo_log.log_write, or
\* the end of the loop; fix also wants a non-empty lrc_content.  What
\* client.exists finds was there before the command began: no track before
\* this one has the same .lrc path.
Lyrics ==
  /\ fpc = "lyrics"
  /\ \/ /\ component \in {"lyrics", "all"}
        /\ track_no < MaxTracks
        /\ track_no' = track_no + 1
        /\ \E readable \in BOOLEAN, lrc_exists \in BOOLEAN, lyrics \in BOOLEAN,
              lrc_content \in BOOLEAN :
             /\ existed' = IF readable /\ lrc_exists
                           THEN existed \cup {RemotePath(album_no, track_no + 1)}
                           ELSE existed
             /\ IF FetchesLyrics(readable, lrc_exists, lyrics)
                THEN IF live /\ (command = "fix" => lrc_content)
                     THEN /\ events' = log_write(events, RemotePath(album_no, track_no + 1),
                                                 FALSE, 0)
                          /\ fpc' = "lyrics_write"
                          /\ stats' = stats
                     ELSE /\ events' = events
                          /\ fpc' = "lyrics"
                          /\ stats' = LyricsCounted(stats)
                ELSE /\ events' = events
                     /\ fpc' = "lyrics"
                     /\ stats' = stats
     \/ /\ component \notin {"lyrics", "all"} \/ track_no >= 1
        /\ track_no' = track_no
        /\ events' = events
        /\ fpc' = "album"
        /\ UNCHANGED <<existed, stats>>
  /\ UNCHANGED <<command, live, component, album_no, listing>>
  /\ UNCHANGED <<rvars, jvars, wvars, nvars, cvars, hvars>>

\* client.write_text(lrc_path, lrc_content); an OSError leaves the command
LyricsWrite ==
  /\ fpc = "lyrics_write"
  /\ events' = RemoteWrite(events, RemotePath(album_no, track_no))
  /\ \E ok \in BOOLEAN :
       /\ fpc' = IF ok THEN "lyrics" ELSE "failed"
       /\ stats' = IF ok THEN LyricsCounted(stats) ELSE stats
  /\ UNCHANGED <<command, live, component, album_no, track_no, listing, existed>>
  /\ UNCHANGED <<rvars, jvars, wvars, nvars, cvars, hvars>>

\* a plausible slip: the journal saved in dry-run mode too
FixSave_always ==
  /\ fpc = "save"
  /\ events' = Append(events, [op |-> "save", path |-> RemotePath(0, 0),
                               had_previous |-> FALSE, previous_size |-> 0])
  /\ fpc' = "done"
  /\ UNCHANGED <<command, live, component, album_no, track_no, listing, existed, stats>>
  /\ UNCHANGED <<rvars, jvars, wvars, nvars, cvars, hvars>>

\* `if not dry_run: undo_log.save()`
FixSave ==
  /\ fpc = "save"
  /\ events' = IF live
               THEN Append(events, [op |-> "save", path |-> RemotePath(0, 0),
                                    had_previous |-> FALSE, previous_size |-> 0])
               ELSE events
  /\ fpc' = "done"
  /\ UNCHANGED <<command, live, component, album_no, track_no, listing, existed, stats>>
  /\ UNCHANGED <<rvars, jvars, wvars, nvars, cvars, hvars>>

InitFix ==
  /\ tree = BaseTree
  /\ RenamerIdle
  /\ JournalIdle
  /\ WatcherIdle
  /\ PartsIdle

NextFix ==
  FixStart \/ NextAlbum \/ Artwork \/ CoverWrite \/ Lyrics \/ LyricsWrite \/ FixSave

SpecFix == InitFix /\ [][NextFix]_vars

(***************************************************************************)
(* The watch command (main.py): run with process_albums as the callback    *)
(***************************************************************************)
\* f"{album_path}\\cover.jpg"
CoverPath(album_path) == album_path \o <<BS, "c", "o", "v", "e", "r", ".", "j", "p", "g">>

\* the covers of the first n albums
RECURSIVE CoverPaths(_, _)
CoverPaths(album_paths, n) ==
  IF n = 0 THEN <<>>
  ELSE Append(CoverPaths(album_paths, n - 1), CoverPath(album_paths[n]))

\* process_albums as a whole, for --component artwork: the paths it hands to
\* undo_log.log_write, at most room of them, and whether it raises (a fetch
\* or client.write_file that fails) or comes to its end
process_albums(album_paths, lv, room) ==
  LET most == IF Len(album_paths) < room THEN Len(album_paths) ELSE room
  IN  { [logged_paths |-> CoverPaths(album_paths, n), raised |-> r] :
          n \in 0..(IF lv THEN most ELSE 0), r \in BOOLEAN }

\* watch: dry_run is read, the DirectoryWatcher is constructed (no state file
\* is there yet)
WatchCommand ==
  /\ wpc = "new"
  /\ command = ""
  /\ snapshot = NoSnapshot
  /\ command' = "watch"
  /\ component' = "artwork"
  /\ live' \in BOOLEAN
  /\ known_files' = WatchState_load(snapshot).known_files
  /\ running' = FALSE
  /\ wpc' = "constructed"
  /\ UNCHANGED <<fpc, album_no, track_no, listing, existed, stats, events>>
  /\ UNCHANGED <<snapshot, cycle, share, known0, new_files, modified_files,
                 deleted_files, albums, called, failed>>
  /\ UNCHANGED <<rvars, jvars, nvars, cvars, hvars>>

\* run: `while self._running`, and run_once is entered; the count of the
\* cycles stays at MaxCycles once it is reached, the loop goes on
LoopOn ==
  /\ wpc = "top"
  /\ IF running
     THEN /\ wpc' = "scan"
          /\ cycle' = IF cycle < MaxCycles THEN cycle + 1 ELSE cycle
          /\ known0' = known_files
          /\ share' = NoShare
          /\ new_files' = <<>>
          /\ modified_files' = <<>>
          /\ deleted_files' = {}
          /\ albums' = <<>>
          /\ called' = <<>>
          /\ failed' = FALSE
     ELSE /\ wpc' = "stopped"
          /\ UNCHANGED <<cycle, known0, share, new_files, modified_files,
                         deleted_files, albums, called, failed>>
  /\ UNCHANGED <<known_files, snapshot, running>>
  /\ UNCHANGED <<rvars, jvars, pvars>>

\* the elements of a list
Elements(list) == {list[i] : i \in 1..Len(list)}

\* run_once: `self.process_callback(list(albums))` with process_albums: the
\* entries are logged; at the end, in live mode, undo_log.save() empties the
\* buffer; an exception leaves the callback before that
Callback ==
  /\ wpc = "dispatch"
  /\ LET files_to_process == new_files \o modified_files
     IN  IF files_to_process # <<>>
         THEN /\ albums' = get_albums_from_files(files_to_process)
              /\ called' = Append(called, albums')
              /\ \E o \in process_albums(albums', live, MaxLogged - Len(unsaved)) :
                   /\ unsaved' = IF o.raised \/ ~live THEN unsaved \o o.logged_paths
                                 ELSE <<>>
                   /\ failed' = o.raised
                   /\ wpc' = IF o.raised THEN OnException ELSE "persist"
                   /\ pending' = IF o.raised THEN pending \cup Elements(albums')
                                 ELSE pending
              /\ again' = again \cup (Elements(albums') \cap pending)
         ELSE /\ wpc' = "persist"
              /\ UNCHANGED <<albums, called, failed, unsaved, pending, again>>
  /\ UNCHANGED stop_at
  /\ UNCHANGED <<known_files, snapshot, running, cycle, share, known0, new_files,
                 modified_files, deleted_files>>
  /\ UNCHANGED <<rvars, jvars, nvars, cvars, fvars>>

\* stop, called once from another thread at any moment after the construction
StopThread ==
  /\ wpc \notin {"new", "crashed", "stopped"}
  /\ stop_at = ""
  /\ running' = FALSE
  /\ stop_at' = wpc
  /\ UNCHANGED <<unsaved, pending, again>>
  /\ UNCHANGED <<known_files, snapshot, wpc, cycle, share, known0, new_files,
                 modified_files, deleted_files, albums, called, failed>>
  /\ UNCHANGED <<rvars, jvars, nvars, cvars, fvars>>

InitWatch ==
  /\ tree = BaseTree
  /\ RenamerIdle
  /\ JournalIdle
  /\ PartsIdle
  /\ WatcherIdle

NextWatch ==
  WatchCommand \/ Run \/ LoopOn \/ ScanFew \/ ScanFewRaises \/ Callback
  \/ Persist \/ Sleep \/ StopThread

\* the thread of run is never held up for ever; a stop is not bound to come
SpecWatch ==
  /\ InitWatch
  /\ [][NextWatch]_vars
  /\ WF_vars(Run) /\ WF_vars(LoopOn) /\ WF_vars(ScanFew \/ ScanFewRaises)
  /\ WF_vars(Callback) /\ WF_vars(Persist) /\ WF_vars(Sleep)

(***************************************************************************)
(* Properties                                                              *)
(***************************************************************************)
Running == pc \in {"loop", "returned"}

\* the action the j-th iteration of this call worked on
AttemptedAction(j) == queue[trace[j].k]

\* the actions of the input list that execute_renames acts on
Executable(acts) == {k \in 1..Len(acts) : acts[k].action_type \in FolderKinds \cup FileKinds}

\* the journal entries of the renames that changed the tree, in the order of tr
RECURSIVE PerformedRenames(_, _)
PerformedRenames(tr, q) ==
  IF tr = <<>> THEN <<>>
  ELSE (IF tr[1].moved THEN <<RenameEntry(q[tr[1].k].src, q[tr[1].k].dst)>> ELSE <<>>)
       \o PerformedRenames(Tail(tr), q)

C2_NoFileLost ==
  (~dry_run /\ pc \in {"loop", "returned", "replanned"}) =>
    /\ \A p \in Files(tree0) :
         Cardinality({q \in Files(tree) : tree[q] = tree0[p]}) = 1
    /\ Cardinality(Files(tree)) = Cardinality(Files(tree0))

\* a live call returned after a rename that moved files and after a failure
C2_Witness ==
  /\ pc = "returned" /\ ~dry_run
  /\ success >= 1 /\ errors >= 1
  /\ tree # tree0

\* C3: the actions are attempted folder kinds first, then file kinds, each group
\* in its input order; no file-kind action is attempted before a folder-kind one.
C3_FoldersBeforeFiles ==
  Running =>
    LET attempted == [j \in 1..Len(trace) |-> AttemptedAction(j)]
    IN  /\ \A i, j \in 1..Len(trace) :
             (i < j) => ~(attempted[i].action_type \in FileKinds
                          /\ attempted[j].action_type \in FolderKinds)
        /\ pc = "returned" =>
             /\ SelectKind(attempted, FolderKinds) = SelectKind(actions, FolderKinds)
             /\ SelectKind(attempted, FileKinds) = SelectKind(actions, FileKinds)
             /\ Len(attempted) = Cardinality(Executable(actions))

\* a list that named a file action before a folder action was run to the end
C3_Witness ==
  /\ pc = "returned"
  /\ Len(actions) = 2
  /\ actions[1].action_type \in FileKinds
  /\ actions[2].action_type \in FolderKinds
  /\ Len(trace) = 2

CanonicalAlbum(meta) ==
  LET name == generate_folder_name(meta)
  IN  SubSeq(name, FindChar(name, FS) + 1, Len(name))

\* the layout of the album is the canonical one already
CanonicalLayout(al) ==
  /\ Resolve(al.album_path) # <<>>
  /\ Resolve(al.album_path)[Len(Resolve(al.album_path))] = CanonicalAlbum(al.album_meta)
  /\ \A k \in 1..Len(al.tracks) :
       al.tracks[k].path \in DOMAIN al.track_metadata.map =>
         al.tracks[k].name =
           generate_track_filename(al.track_metadata.map[al.tracks[k].path])

\* C5: when the basename of the album directory is the canonical album folder
\* name and every track is named as its metadata says, calculate_renames
\* returns the empty list.
C5_CanonicalLayoutNeedsNothing ==
  (planned /\ pc = "ready" /\ CanonicalLayout(album)) => actions = <<>>

\* the planner was given a canonical album with a canonical track that has metadata
C5_Witness ==
  /\ planned /\ pc = "ready"
  /\ CanonicalLayout(album)
  /\ Len(PathParts(album.album_path)) >= 2
  /\ \E k \in 1..Len(album.tracks) :
       album.tracks[k].path \in DOMAIN album.track_metadata.map

\* C6: when the plan of an album was executed live without an error, planning
\* the album again, as it now is and with the same metadata, returns nothing.
C6_ReconciliationIdempotent ==
  (pc = "replanned" /\ errors = 0) => replan = <<>>

\* a plan that moved the album directory and renamed a track went through
\* without an error and the album was planned again
C6_Witness ==
  /\ pc = "replanned"
  /\ errors = 0
  /\ success >= 2
  /\ \E j \in 1..Len(trace) : AttemptedAction(j).action_type = "album_folder"

\* C7: in live mode a failure (source missing, destination present, or the
\* rename raising an I/O error) adds 1 to the error count and the later
\* actions of the list are attempted all the same.
C7_FailureDoesNotAbort ==
  (Running /\ ~dry_run) =>
    /\ \A j \in 1..Len(trace) :
         (~trace[j].src_existed \/ trace[j].dst_existed \/ ~trace[j].moved) => ~trace[j].ok
    /\ errors = Cardinality({j \in 1..Len(trace) : ~trace[j].ok})
    /\ pc = "returned" => Len(trace) = Cardinality(Executable(actions))

\* a live call whose first rename raised an I/O error went on to a second
\* action, whose source was missing, and returned with two errors
C7_Witness ==
  /\ pc = "returned" /\ ~dry_run
  /\ Len(trace) = 2
  /\ trace[1].io_error
  /\ ~trace[2].src_existed
  /\ errors = 2

\* C8: in live mode the entries appended to the UndoLog are exactly the renames
\* that were performed, in execution order; there are as many as successes, and
\* none for a failed action, also when later actions fail.
C8_JournalIsThePerformedRenames ==
  (Running /\ ~dry_run) =>
    /\ undo = PerformedRenames(trace, queue)
    /\ Len(undo) = success
    /\ Len(undo) <= Cardinality({j \in 1..Len(trace) : trace[j].called})

\* a live call performed a rename and then failed on a later action
C8_Witness ==
  /\ pc = "returned" /\ ~dry_run
  /\ Len(trace) = 2
  /\ trace[1].moved
  /\ trace[2].called /\ ~trace[2].ok
  /\ Len(undo) = 1

\* C9: a dry run issues no rename, leaves the remote tree as it was, appends
\* nothing to the UndoLog and counts every folder-kind and file-kind action as
\* a success, with no error.
C9_DryRunDoesNothing ==
  (Running /\ dry_run) =>
    /\ tree = tree0
    /\ undo = <<>>
    /\ \A j \in 1..Len(trace) : ~trace[j].called
    /\ errors = 0
    /\ success = Len(trace)
    /\ pc = "returned" => success = Cardinality(Executable(actions))

\* a dry run returned two successes for a list whose first action has no source
C9_Witness ==
  /\ pc = "returned" /\ dry_run
  /\ success = 2
  /\ ~trace[1].src_existed

\* C10 as stated: a dry run returns the same (success, errors) pair as the live
\* run of the same list on the same tree (compared on the live runs in which no
\* rename met an I/O error, which a dry run could not foresee).
C10_DryRunCountsLikeLive ==
  (/\ pc = "returned" /\ ~dry_run /\ dryResult # <<>>
   /\ \A j \in 1..Len(trace) : ~trace[j].io_error)
    => <<success, errors>> = dryResult

\* C10, amended: a dry run and the live run of the same list on the same tree
\* count the same actions, so the two pairs have the same sum; the dry run
\* reports no error, and the pairs are equal when the live run has no error.
C10_DryRunCountsEveryActionAsSuccess ==
  (pc = "returned" /\ ~dry_run /\ dryResult # <<>>) =>
    /\ dryResult[1] + dryResult[2] = success + errors
    /\ dryResult[2] = 0
    /\ errors = 0 => <<success, errors>> = dryResult

\* a list was run dry and then live on the same tree, and the live run had a
\* success and a failure
C10_Witness ==
  /\ pc = "returned" /\ ~dry_run /\ dryResult # <<>>
  /\ success >= 1 /\ errors >= 1
  /\ tree # tree0

(***************************************************************************)
(* The undo journal                                                        *)
(***************************************************************************)
\* how many entries had been logged when save last returned
LastSave == IF saves = <<>> THEN 0 ELSE saves[Len(saves)]

\* C11: the undo journal is append-only. Whatever is called (log_rename,
\* log_write, log_delete, save, read_all, on one UndoLog or on several used one
\* after another), the text of the journal before the call is a prefix of its
\* text after the call, and a journal that exists goes on existing: no line is
\* rewritten, reordered or removed.
C11_JournalAppendOnly ==
  [][/\ IsPrefix(journal.text, journal'.text)
     /\ journal.exists => journal'.exists]_vars

\* a second UndoLog instance has saved an entry to a journal that already held
\* the entry saved by the first one
C11_Witness ==
  /\ instances = 2
  /\ saves = <<1, 2>>
  /\ readback.done
  /\ readback.entries = logged

\* C12: journal round-trip. With one UndoLog on a journal that was absent,
\* after any interleaving of log_* and save calls the buffer holds exactly the
\* entries logged since the last save, and read_all returns exactly the entries
\* logged before the last save, each once and in the order they were logged (so
\* a save with nothing newly logged has appended nothing).
C12_JournalRoundTrip ==
  instances = 1 =>
    /\ buffer = SubSeq(logged, LastSave + 1, Len(logged))
    /\ readback.done =>
         /\ readback.ok
         /\ readback.entries = SubSeq(logged, 1, LastSave)

\* read_all after one entry was saved, a second save found nothing new, and one
\* more entry was logged and not saved
C12_Witness ==
  /\ instances = 1
  /\ saves = <<1, 1>>
  /\ Len(logged) = 2
  /\ readback.done
  /\ Len(readback.entries) = 1

(***************************************************************************)
(* The watcher                                                             *)
(***************************************************************************)
\* the scan of the current cycle has returned (the Diff step is done)
Scanned ==
  \/ wpc \in {"dispatch", "persist"}
  \/ wpc \in {"sleep", "top", "stopped"} /\ cycle > 0 /\ (~failed \/ called # <<>>)

\* the Dispatch step of the current cycle is over
Dispatched == Scanned /\ wpc # "dispatch"

\* the observation of the cycle: the tracked audio files the scan enumerated,
\* and the state stat gave for those it could stat
ObservedPaths == Range(Enumerated(walk(share)))

StatOk(q) == share.stat[q].ok

ObservedState(q) == FileState(q, share.stat[q].st_size, share.stat[q].st_mtime)

\* the directory the scan found q in
ContainingDir(q) ==
  LET walked == walk(share)
      k == CHOOSE k \in 1..Len(walked) :
             \E j \in 1..Len(walked[k].filenames) :
               q = walked[k].dirpath \o <<BS>> \o walked[k].filenames[j]
  IN  walked[k].dirpath

\* C13: watcher round-trip. When the WatchState at the start of a cycle has
\* exactly the tracked files the scan observes, each with the size and
\* modification time observed, the cycle reports no new, no modified and no
\* deleted file, computes no affected album, does not call the reconciliation
\* callback and leaves known_files as it was.
C13_WatcherRoundTrip ==
  (/\ Scanned
   /\ DOMAIN known0 = ObservedPaths
   /\ \A q \in ObservedPaths : StatOk(q) => known0[q] = ObservedState(q))
    => /\ new_files = <<>>
       /\ modified_files = <<>>
       /\ deleted_files = {}
       /\ albums = <<>>
       /\ called = <<>>
       /\ known_files = known0

\* a cycle has gone to sleep after observing the two files it already knew,
\* unchanged
C13_Witness ==
  /\ wpc = "sleep"
  /\ ~failed
  /\ Cardinality(DOMAIN known0) = 2
  /\ DOMAIN known0 = ObservedPaths
  /\ \A q \in ObservedPaths : StatOk(q) /\ known0[q] = ObservedState(q)

\* C14: new-file detection. Every tracked audio file the scan observed (with
\* its state) whose path was not in the WatchState before is classified new, its
\* directory is in the affected-album set once the albums are computed, and when
\* the cycle goes to sleep the persisted snapshot holds the file's observed
\* state.
C14_NewFileDetected ==
  Scanned =>
    \A q \in ObservedPaths :
      (StatOk(q) /\ q \notin DOMAIN known0) =>
        /\ q \in Range(new_files)
        /\ Dispatched => ContainingDir(q) \in Range(albums)
        /\ wpc = "sleep" =>
             /\ q \in DOMAIN WatchState_load(snapshot).known_files
             /\ WatchState_load(snapshot).known_files[q] = ObservedState(q)

\* C15: deletion detection. Every path of the prior WatchState that the scan
\* did not enumerate is classified deleted, is no longer in known_files, and
\* when the cycle goes to sleep the persisted snapshot does not hold it.
C15_DeletionDetected ==
  Scanned =>
    \A q \in DOMAIN known0 \ ObservedPaths :
      /\ q \in deleted_files
      /\ q \notin DOMAIN known_files
      /\ wpc = "sleep" => q \notin DOMAIN WatchState_load(snapshot).known_files

\* C16: modification detection. A path that is in the prior WatchState and is
\* observed with its state is classified modified exactly when the observed
\* size or the observed modification time differs from the stored entry; then
\* its entry is the observed state; when neither differs the path is in none of
\* the three lists and its entry is as it was.
C16_ModificationDetected ==
  Scanned =>
    \A q \in DOMAIN known0 \cap ObservedPaths :
      StatOk(q) =>
        LET differs == \/ ObservedState(q).size # known0[q].size
                       \/ ObservedState(q).modified # known0[q].modified
        IN  /\ q \in Range(modified_files) <=> differs
            /\ differs => known_files[q] = ObservedState(q)
            /\ ~differs =>
                 /\ q \notin Range(new_files) \cup Range(modified_files) \cup deleted_files
                 /\ known_files[q] = known0[q]

\* of two known files in one cycle, one changed in its modification time only
\* and the other did not change
C16_Witness ==
  /\ Scanned
  /\ \E q \in DOMAIN known0 \cap ObservedPaths :
       /\ StatOk(q)
       /\ ObservedState(q).size = known0[q].size
       /\ ObservedState(q).modified # known0[q].modified
       /\ q \in Range(modified_files)
  /\ \E q \in DOMAIN known0 \cap ObservedPaths :
       /\ StatOk(q)
       /\ ObservedState(q) = known0[q]

\* C17 as stated: after the Diff step, for every observation (also one where
\* the stat of an enumerated file fails), the WatchState has an entry for each
\* tracked audio file the scan enumerated and none for any other path.
C17_OneEntryPerEnumeratedFile ==
  Scanned => DOMAIN known_files = ObservedPaths

\* C17 as amended: after the Diff step the WatchState has an entry for exactly
\* the enumerated tracked audio files whose stat succeeded in this scan or that
\* had an entry before it, and none for any path that was not enumerated; the
\* entry of a file whose stat succeeded is its observed state, the entry of a
\* file whose stat failed is the one it had.
C17_OneEntryPerObservedFile ==
  Scanned =>
    /\ DOMAIN known_files = {q \in ObservedPaths : StatOk(q) \/ q \in DOMAIN known0}
    /\ \A q \in DOMAIN known_files :
         known_files[q] = IF StatOk(q) THEN ObservedState(q) ELSE known0[q]

\* a scan has enumerated a file it did not know and could not stat, next to a
\* file it recorded, while a known file had vanished
C17_Witness ==
  /\ Scanned
  /\ \E q \in ObservedPaths : ~StatOk(q) /\ q \notin DOMAIN known0
  /\ \E q \in ObservedPaths : StatOk(q) /\ q \notin DOMAIN known0
  /\ DOMAIN known0 \ ObservedPaths # {}

\* C18: dispatch. In a cycle with at least one new or modified file the
\* reconciliation callback is called exactly once, with a list that holds,
\* without duplicates, exactly the directories of the new and modified paths
\* (deleted paths add none); in a cycle without new or modified file it is not
\* called.
C18_DispatchOnce ==
  Dispatched =>
    LET changed == Range(new_files) \cup Range(modified_files)
    IN  IF changed # {}
        THEN /\ Len(called) = 1
             /\ \A i, j \in 1..Len(called[1]) : called[1][i] = called[1][j] => i = j
             /\ Range(called[1]) = {ContainingDir(q) : q \in changed}
        ELSE called = <<>>

\* the callback was called for two albums, one of them with a new and a
\* modified file, in a cycle that also found a file deleted
C18_Witness ==
  /\ Dispatched
  /\ Len(called) = 1
  /\ Len(called[1]) = 2
  /\ new_files # <<>>
  /\ modified_files # <<>>
  /\ Len(new_files) + Len(modified_files) = 3

\* C19: each time the loop enters the sleep, the persisted snapshot equals the
\* known-files mapping in memory, also after a cycle in which the scan or the
\* callback raised.
C19_SnapshotPersistedEveryCycle ==
  wpc = "sleep" => WatchState_load(snapshot) = Returned(known_files)

\* C20: a failed cycle does not end the watcher. When the scan or the callback
\* raised in cycle n, the loop goes to its sleep, and unless a stop is requested
\* it then starts cycle n + 1.
C20_FailedCycleGoesOn ==
  \A n \in 1..(MaxCycles - 1) :
    (failed /\ cycle = n) ~> (~running \/ (wpc = "scan" /\ cycle = n + 1))

\* the cycle after one whose callback raised has started
C20_Witness ==
  /\ cycle = 2
  /\ wpc = "scan"
  /\ running
  /\ snapshot = NoSnapshot
  /\ known_files # <<>>

\* C21: the watcher reaches Stopped only from the test of the loop, between a
\* Sleep and the next Scan; a cycle that is under way is never cut short
C21_StopsOnlyAtBoundary ==
  [][wpc' = "stopped" => wpc \in {"top", "stopped"}]_vars

\* C22: loading the persisted watch state is never fatal. Whatever the state
\* file holds, the constructor of the watcher does not raise, and for an absent
\* file and for one that is not a well-formed watch state the watcher starts
\* from an empty known_files.
C22_LoadNeverFatal ==
  /\ wpc # "crashed"
  /\ (wpc = "constructed" /\ snapshot \in {NoSnapshot, Undecodable} \cup Malformed)
       => known_files = <<>>

\* C23: a malformed undo journal is never fatal. Whatever the journal holds,
\* read_all returns a value and raises nothing.
C23_MalformedJournalNotFatal ==
  readback.done => readback.ok

(***************************************************************************)
(* The naming functions                                                    *)
(***************************************************************************)
\* C24: sanitize_filename is idempotent with the default replacement:
\* sanitize_filename applied to a name it returned gives back that name.
C24_SanitizeIdempotent ==
  (call.fn = "sanitize_filename" /\ call.again) => call.result = call.name

\* C25: generate_folder_name returns "<artist>/<album>": <artist> is the
\* Compilations bucket when album_artist is a various-artists alias in any
\* case, else the sanitized first non-empty of album_artist, artist and
\* "Unknown Artist"; <album> is the sanitized album (or "Unknown Album"), then
\* " (year)" exactly when the year is not zero, then " [formatTag]".
C25_FolderName ==
  call.fn = "generate_folder_name" =>
    LET m == call.meta
        first == IF m.album_artist # <<>> THEN m.album_artist
                 ELSE IF m.artist # <<>> THEN m.artist ELSE <<"U", "n", "k", "n", "o", "w", "n", " ", "A", "r", "t", "i", "s", "t">>
        artist == IF Lower(m.album_artist) \in VariousArtists THEN <<"C", "o", "m", "p", "i", "l", "a", "t", "i", "o", "n", "s">>
                  ELSE sanitize_filename(first)
        album_name == sanitize_filename(IF m.album # <<>> THEN m.album ELSE <<"U", "n", "k", "n", "o", "w", "n", " ", "A", "l", "b", "u", "m">>)
        when == IF m.year # 0 THEN <<" ", "(">> \o Str(m.year) \o <<")">> ELSE <<>>
    IN  /\ call.result = artist \o <<"/">> \o album_name \o when \o <<" ", "[">> \o format_tag(m) \o <<"]">>
        /\ (/\ m.album_artist = <<"P", "i", "n", "k", " ", "F", "l", "o", "y", "d">> /\ m.album = <<"T", "h", "e", " ", "W", "a", "l", "l">> /\ m.year = 1979
            /\ m.format = S_FLAC /\ m.bit_depth = 16 /\ m.sample_rate = 44100)
             => call.result = <<"P", "i", "n", "k", " ", "F", "l", "o", "y", "d", "/", "T", "h", "e", " ", "W", "a", "l", "l", " ", "(", "1", "9", "7", "9", ")", " ", "[", "F", "L", "A", "C", " ", "1", "6", "-", "4", "4", "]">>

\* a compilation named by an alias in capitals, with a year and a FLAC tag
C25_Witness ==
  /\ call.fn = "generate_folder_name"
  /\ call.meta.album_artist = <<"V", "a", "r", "i", "o", "u", "s", " ", "A", "r", "t", "i", "s", "t", "s">>
  /\ call.meta.artist = <<"a", ":", "b">>
  /\ call.result = <<"C", "o", "m", "p", "i", "l", "a", "t", "i", "o", "n", "s", "/", "T", "h", "e", " ", "W", "a", "l", "l", " ", "(", "1", "9", "7", "9", ")", " ", "[", "F", "L", "A", "C", " ", "1", "6", "-", "4", "4", "]">>

\* the derivation table of the format tag; other is what a format outside the
\* table gives
TableTag(m, other) ==
  LET rate == IF m.bitrate # 0 THEN <<" ">> \o Str(m.bitrate) ELSE <<>>
  IN  IF m.format = <<"F", "L", "A", "C">>
      THEN IF m.bit_depth # 0 /\ m.sample_rate # 0
           THEN <<"F", "L", "A", "C", " ">> \o Str(m.bit_depth) \o <<"-">> \o Str(m.sample_rate \div 1000)
           ELSE <<"F", "L", "A", "C">>
      ELSE IF m.format = <<"M", "P", "3">> THEN <<"M", "P", "3">> \o rate
      ELSE IF m.format \in {<<"A", "A", "C">>, <<"M", "4", "A">>} THEN <<"A", "A", "C">> \o rate
      ELSE IF m.format \in {<<"O", "G", "G">>, <<"O", "p", "u", "s">>} THEN m.format \o rate
      ELSE other

\* C26: the format tag follows the derivation table, and every format outside
\* the table gives "Unknown".
C26_FormatTagTable ==
  call.fn = "format_tag" => call.result = TableTag(call.meta, <<"U", "n", "k", "n", "o", "w", "n">>)

\* C26 as the code has it: a format outside the table gives the format name
\* itself when it is not empty, and "Unknown" when it is empty.
C26_FormatTagTableOrName ==
  call.fn = "format_tag" =>
    call.result = TableTag(call.meta, IF call.meta.format # <<>> THEN call.meta.format
                                      ELSE <<"U", "n", "k", "n", "o", "w", "n">>)

\* the tag of a format the table does not have, with a bitrate
C26_Witness ==
  /\ call.fn = "format_tag"
  /\ call.meta.format = S_WAVE
  /\ call.meta.bitrate = 320
  /\ call.result = <<"W", "A", "V", "E">>

\* prefix + sanitized title + extension, for the extension, the track number
\* and the disc number given
TrackName(m, ext, track, disc) ==
  LET title == sanitize_filename(IF m.title # <<>> THEN m.title ELSE <<"U", "n", "k", "n", "o", "w", "n", " ", "T", "r", "a", "c", "k">>)
      two == IF track < 10 THEN <<"0">> \o Str(track) ELSE Str(track)
      prefix == IF m.total_discs > 1 \/ m.disc_number > 1
                THEN Str(disc) \o <<"-">> \o two \o <<" ", "-", " ">>
                ELSE two \o <<" ", "-", " ">>
  IN  prefix \o title \o ext

\* C27: generate_track_filename returns prefix + sanitized title + extension;
\* the extension is the lower-cased extension of the file path, and ".flac"
\* when the path has no extension or is absent; the track number is padded to
\* two digits; the prefix is "<disc>-<track> - " when total_discs > 1 or
\* disc_number > 1, else "<track> - ".
C27_TrackFilename ==
  call.fn = "generate_track_filename" =>
    LET m == call.meta
        ext == IF m.file_path = <<>> \/ Suffix(m.file_path) = <<>> THEN <<".", "f", "l", "a", "c">>
               ELSE Lower(Suffix(m.file_path))
    IN  call.result = TrackName(m, ext, m.track_number, m.disc_number)

\* C27 as the code has it: ".flac" only when the file path is absent, no
\* extension when the path has none; a track number 0 and a disc number 0
\* count as 1.
C27_TrackFilenameOfPath ==
  call.fn = "generate_track_filename" =>
    LET m == call.meta
        ext == IF m.file_path = <<>> THEN <<".", "f", "l", "a", "c">> ELSE Lower(Suffix(m.file_path))
        track == IF m.track_number = 0 THEN 1 ELSE m.track_number
        disc == IF m.disc_number = 0 THEN 1 ELSE m.disc_number
    IN  call.result = TrackName(m, ext, track, disc)

\* track 5 of the second disc, from a path with an extension in capitals
C27_Witness ==
  /\ call.fn = "generate_track_filename"
  /\ call.meta.file_path = <<"a", "/", "b", ".", "M", "P", "3">>
  /\ call.result = <<"2", "-", "0", "5", " ", "-", " ", "M", "o", "n", "e", "y", ".", "m", "p", "3">>

(***************************************************************************)
(* The session of an SMBClient                                             *)
(***************************************************************************)
\* C28: the session of a client is registered lazily and once. No
\* register_session call has returned before the first call of the library;
\* every call of the library comes after a registration that succeeded; after
\* one registration has succeeded none follows.
C28_LazyOnce ==
  /\ registrations > 0 => remote_calls > 0
  /\ remote_calls > 0 => (session_registered /\ registrations > 0)
  /\ registrations <= 1

\* C28 as the code has it: lazily for a client made by SMBClient(...); a client
\* handed out by smb_session() is registered when the context is entered,
\* before any call of the library; once in both cases.
C28_RegisteredOnce ==
  /\ client = "SMBClient" => (registrations > 0 => remote_calls > 0)
  /\ client = "smb_session" => session_registered
  /\ remote_calls > 0 => (session_registered /\ registrations > 0)
  /\ registrations <= 1

\* a client whose first method could not register, whose second one did, and
\* whose third one found the session registered
C28_Witness ==
  /\ client = "SMBClient"
  /\ invoked = 3
  /\ registrations = 1
  /\ remote_calls = 2
  /\ last_op = "write_file"

(***************************************************************************)
(* The planner without per-track metadata                                  *)
(***************************************************************************)
\* calculate_renames was called with track_metadata None or empty
NoTrackMetadata ==
  /\ planned /\ pc = "ready"
  /\ ~album.track_metadata.given \/ DOMAIN album.track_metadata.map = {}

\* the basename of the album directory
Basename(album_path) == PathParts(album_path)[Len(PathParts(album_path))]

\* C29: without per-track metadata (None or an empty map) calculate_renames
\* returns at most one action, of kind album_folder, never a file action, and
\* it returns the album_folder action exactly when the basename of the album
\* directory differs from the canonical album folder name.
C29_AlbumActionOnly ==
  NoTrackMetadata =>
    /\ Len(actions) <= 1
    /\ \A k \in 1..Len(actions) : actions[k].action_type = "album_folder"
    /\ actions # <<>> <=> Basename(album.album_path) # CanonicalAlbum(album.album_meta)

\* C29 as the code has it: the album_folder action is returned exactly when
\* the album path has a parent part and its basename differs from the
\* canonical album folder name; a path of one part gets no action.
C29_AlbumActionOnlyBelowParent ==
  NoTrackMetadata =>
    /\ Len(actions) <= 1
    /\ \A k \in 1..Len(actions) : actions[k].action_type = "album_folder"
    /\ actions # <<>> <=>
         /\ Len(PathParts(album.album_path)) >= 2
         /\ Basename(album.album_path) # CanonicalAlbum(album.album_meta)

\* two tracks that are not named canonically, an empty metadata map, and the
\* one action that renames the album directory
C29_Witness ==
  /\ NoTrackMetadata
  /\ album.track_metadata.given
  /\ Len(album.tracks) = 2
  /\ Len(actions) = 1
  /\ actions[1].action_type = "album_folder"
  /\ actions[1].src = album.album_path

(***************************************************************************)
(* The journal entry ahead of every cover and lyrics write                 *)
(***************************************************************************)
\* the steps that change the remote tree
Writes == {i \in 1..Len(events) : events[i].op = "write"}

\* C30: every remote write of a cover or lyrics file issued in live mode by
\* fix or by the watch callback comes directly after the log_write of an
\* UndoLog entry for the same path: nothing, and so no other remote
\* mutation, lies between the two.
C30_LoggedBeforeWrite ==
  \A i \in Writes :
    /\ live
    /\ i > 1
    /\ events[i - 1].op = "log_write"
    /\ events[i - 1].path = events[i].path

\* a watch callback in live mode that wrote the cover of the first album over
\* an older one and the lyrics of its first track, and saved the journal
C30_Witness ==
  /\ command = "watch" /\ live /\ fpc = "done"
  /\ Len(events) >= 5
  /\ events[1] = [op |-> "log_write", path |-> RemotePath(1, 0), had_previous |-> TRUE,
                  previous_size |-> 2]
  /\ events[2].op = "write" /\ events[2].path = RemotePath(1, 0)
  /\ events[3] = [op |-> "log_write", path |-> RemotePath(1, 1), had_previous |-> FALSE,
                  previous_size |-> 0]
  /\ events[4].op = "write" /\ events[4].path = RemotePath(1, 1)
  /\ events[Len(events)].op = "save"

(***************************************************************************)
(* The watch command                                                       *)
(***************************************************************************)
\* C31: in live watch mode the undo journal is persisted before the snapshot:
\* whenever run_once writes the WatchState snapshot, the buffer of the UndoLog
\* is empty, every entry logged so far by the callback having been saved; in
\* every cycle, also after a cycle that failed.
C31_JournalBeforeSnapshot ==
  [][(live /\ wpc = "persist" /\ wpc' = "sleep") => unsaved = <<>>]_vars

\* run is inside its loop
InLoop == wpc \in {"top", "scan", "dispatch", "persist", "sleep"}

\* C32: a stop request issued while run is in a cycle or asleep (the flag is
\* down inside the loop) is honoured at the top of the next iteration: the
\* flag stays down, the test of the loop starts no further scan, and run
\* returns.
C32_StopHonouredAtTop ==
  /\ [][(InLoop /\ ~running) => (~running' /\ ~(wpc = "top" /\ wpc' = "scan"))]_vars
  /\ (InLoop /\ ~running) ~> (wpc = "stopped")

\* stop was called while run was in its first cycle, which went through
\* and wrote the snapshot: run is asleep with the flag down
C32_Witness ==
  /\ wpc = "sleep"
  /\ ~running
  /\ cycle = 1
  /\ ~failed
  /\ known_files # <<>>
  /\ WatchState_load(snapshot) = Returned(known_files)

\* C37: no detected change is lost when reconciliation fails: the album of a
\* file that was new or modified in a cycle whose callback raised is passed to
\* the callback again in a later cycle, as long as the watcher runs.
C37_NoChangeLost ==
  (pending # {}) ~> (pending \subseteq again \/ wpc = "stopped")

\* C38: a stop request is never lost: once stop was called, at any moment
\* after the construction, run returns.
C38_StopNeverLost ==
  (stop_at # "") ~> (wpc = "stopped")

(***************************************************************************)
(* Dry run, prior state and existing lyrics in fix and process_albums      *)
(***************************************************************************)
\* C33: in dry-run mode fix and the watch callback issue no remote write,
\* append no entry to the UndoLog and never save the journal: nothing at all
\* is recorded, whatever the albums hold and the fetches return.
C33_DryRunWritesNothing ==
  ~live => events = <<>>

\* a dry run of fix that went through its albums, would have added one cover
\* and the lyrics of two tracks, and did nothing
C33_Witness ==
  /\ command = "fix" /\ ~live /\ fpc = "done"
  /\ stats.covers_added = 1
  /\ stats.lyrics_added = 2
  /\ events = <<>>

\* the size of the cover.jpg of a listing, and whether there is one
TargetBefore(items) ==
  LET at == {i \in 1..Len(items) : items[i].name = "cover.jpg"}
  IN  IF at = {} THEN [given |-> FALSE, size |-> 0]
      ELSE [given |-> TRUE, size |-> items[CHOOSE i \in at : TRUE].size]

\* C39: the entry logged for a cover write records the true prior state of
\* the target: had_previous is true exactly when cover.jpg was in the album
\* directory, and previous_size is its size, 0 when there was none.
C39_TruePriorState ==
  [][(fpc = "artwork" /\ fpc' = "cover_write") =>
       LET entry == events'[Len(events')]
       IN  /\ entry.had_previous = TargetBefore(listing).given
           /\ entry.previous_size = TargetBefore(listing).size]_vars

C34_EveryActionCountedOnce ==
  pc = "returned" =>
    /\ success + errors = Cardinality(Executable(actions))
    /\ Len(trace) = Len(queue)
    /\ \A j \in 1..Len(trace) : trace[j].k = j
    /\ success = Cardinality({j \in 1..Len(trace) : trace[j].ok})
    /\ errors = Cardinality({j \in 1..Len(trace) : ~trace[j].ok})

\* a live call on a list of a cover action and a file action whose source is
\* missing returned (0, 1)
C34_Witness ==
  /\ pc = "returned" /\ ~dry_run /\ ~planned
  /\ Len(actions) = 2
  /\ Cardinality(Executable(actions)) = 1
  /\ success = 0 /\ errors = 1

\* the album_folder action of the plan was refused: its source was missing or
\* its destination was there
FolderActionRefused ==
  /\ planned /\ Running /\ ~dry_run
  /\ trace # <<>>
  /\ AttemptedAction(1).action_type = "album_folder"
  /\ ~trace[1].called
  /\ ~trace[1].src_existed \/ trace[1].dst_existed

\* C35: when the album_folder action of a plan of calculate_renames fails in
\* live execution (source missing or destination already there), no file
\* action of the plan performs a rename; no file of a directory that was at
\* the destination already is renamed.
C35_NoFileRenameAfterFolderFailure ==
  FolderActionRefused => \A j \in 2..Len(trace) : ~trace[j].moved

(***************************************************************************)
(* Deletions and unreadable directories                                    *)
(***************************************************************************)
\* C36: a tracked file is classified deleted, and dropped from the state, in
\* a cycle only if it is not on the share at scan time: a directory of the
\* walk that cannot be read never makes a file that is there count as deleted.
C36_DeletedOnlyWhenGone ==
  wpc = "dispatch" =>
    /\ \A q \in deleted_files : q \notin share.files
    /\ \A q \in DOMAIN known0 : q \in share.files => q \in DOMAIN known_files

====
